---- MODULE Spec2Model ----
(***************************************************************************)
(* The import pipeline of the notes application: the POST handler of the   *)
(* import route, its file grouper, the bounded-concurrency scheduler, the  *)
(* per-unit conversion worker with its retry controller, and the page      *)
(* store it writes to.                                                     *)
(*                                                                         *)
(* Strings are sequences of text fragments (a file name is a sequence of   *)
(* characters, a message a sequence of words); the empty string is << >>.  *)
(* Array indices keep the source's numbering (0-based) for tasks and       *)
(* results; sequences built by the grouper are 1-based, so task i works on *)
(* groups[i + 1].                                                          *)
(***************************************************************************)
EXTENDS Integers, Sequences, FiniteSets, TLC

(***************************************************************************)
(* Bounds of the model.                                                    *)
(***************************************************************************)
MaxFiles == 6
MaxFaults == 1
MaxRetryFiles == 2
MaxFairFaults == 1
MaxGroupFiles == 4
MaxBufferLen == 13
MaxCsvFields == 3
MaxEdits == 3
MaxDepth == 2

(***************************************************************************)
(* Program constants.                                                      *)
(***************************************************************************)
CONCURRENCY == 3
MAX_RETRIES == 3
RETRY_BASE_DELAY_MS == 15000

IMAGE_EXTENSIONS ==
  { <<".", "p", "n", "g">>, <<".", "j", "p", "g">>, <<".", "j", "p", "e", "g">>,
    <<".", "g", "i", "f">>, <<".", "w", "e", "b", "p">> }

HTML_EXTENSIONS == { <<".", "h", "t", "m", "l">>, <<".", "h", "t", "m">> }

(***************************************************************************)
(* String helpers of the JavaScript runtime, on sequences of characters.   *)
(***************************************************************************)
Min(a, b) == IF a < b THEN a ELSE b

UpperCase == <<"A", "B", "C", "D", "G", "H", "L", "M", "N", "O", "P", "T">>
LowerCase == <<"a", "b", "c", "d", "g", "h", "l", "m", "n", "o", "p", "t">>

toLowerCase(s) ==
  [k \in 1..Len(s) |->
     IF \E u \in 1..Len(UpperCase) : UpperCase[u] = s[k]
       THEN LowerCase[CHOOSE u \in 1..Len(UpperCase) : UpperCase[u] = s[k]]
       ELSE s[k]]

\* s.lastIndexOf("."), 0-based, -1 when there is none
lastIndexOfDot(s) ==
  IF \E k \in 1..Len(s) : s[k] = "."
    THEN (CHOOSE k \in 1..Len(s) : s[k] = "." /\ \A m \in (k + 1)..Len(s) : s[m] # ".") - 1
    ELSE -1

startsWith(s, p) == Len(p) <= Len(s) /\ SubSeq(s, 1, Len(p)) = p

isWhitespace(c) == c \in {" ", "\t"}

\* s.replace(/\s+/g, "-"): every maximal run of whitespace becomes one hyphen
RECURSIVE replaceWhitespaceRuns(_)
replaceWhitespaceRuns(s) ==
  IF s = << >> THEN << >>
  ELSE IF isWhitespace(Head(s))
    THEN IF Len(s) > 1 /\ isWhitespace(s[2])
           THEN replaceWhitespaceRuns(Tail(s))
           ELSE <<"-">> \o replaceWhitespaceRuns(Tail(s))
    ELSE <<Head(s)>> \o replaceWhitespaceRuns(Tail(s))

getExtension(filename) ==
  LET dot == lastIndexOfDot(filename)
  IN  IF dot >= 0 THEN toLowerCase(SubSeq(filename, dot + 1, Len(filename))) ELSE << >>

getBaseName(filename) ==
  LET dot == lastIndexOfDot(filename)
  IN  IF dot >= 0 THEN SubSeq(filename, 1, dot) ELSE filename

(***************************************************************************)
(* The File Grouper.                                                       *)
(***************************************************************************)
Null == [null |-> TRUE]

htmlFilesOf(fs) == SelectSeq(fs, LAMBDA f : getExtension(f.name) \in HTML_EXTENSIONS)

\* mutant: every file that is not a document counts as an image
imageFilesOfAnyOther(fs) ==
  SelectSeq(fs, LAMBDA f : getExtension(f.name) \notin HTML_EXTENSIONS)

imageFilesOf(fs) ==
  SelectSeq(fs, LAMBDA f : getExtension(f.name) \notin HTML_EXTENSIONS
                           /\ getExtension(f.name) \in IMAGE_EXTENSIONS)

\* mutant: the base names are compared without regard to case
matchesIgnoreCase(img, html) ==
  LET baseName == toLowerCase(getBaseName(html.name))
      imgBase  == toLowerCase(getBaseName(img.name))
  IN  \/ imgBase = baseName
      \/ startsWith(imgBase, baseName \o <<"-">>)
      \/ startsWith(imgBase, baseName \o <<"_">>)

matches(img, html) ==
  LET baseName == getBaseName(html.name)
      imgBase  == getBaseName(img.name)
  IN  \/ imgBase = baseName
      \/ startsWith(imgBase, baseName \o <<"-">>)
      \/ startsWith(imgBase, baseName \o <<"_">>)

\* mutant: the images that joined a unit are not taken out of the unmatched list
groupFilesKeepMatched(fs) ==
  LET htmlFiles  == htmlFilesOf(fs)
      imageFiles == imageFilesOf(fs)
      groupOf(html) ==
        [name       |-> getBaseName(html.name),
         slug       |-> replaceWhitespaceRuns(getBaseName(html.name)),
         htmlFile   |-> html,
         imageFiles |-> SelectSeq(imageFiles, LAMBDA img : matches(img, html))]
  IN  [groups    |-> [k \in 1..Len(htmlFiles) |-> groupOf(htmlFiles[k])],
       unmatched |-> [k \in 1..Len(imageFiles) |-> imageFiles[k].name]]

groupFiles(fs) ==
  LET htmlFiles  == htmlFilesOf(fs)
      imageFiles == imageFilesOf(fs)
      groupOf(html) ==
        [name       |-> getBaseName(html.name),
         slug       |-> replaceWhitespaceRuns(getBaseName(html.name)),
         htmlFile   |-> html,
         imageFiles |-> SelectSeq(imageFiles, LAMBDA img : matches(img, html))]
      matchedImages ==
        { imageFiles[k].name : k \in { m \in 1..Len(imageFiles) :
              \E h \in 1..Len(htmlFiles) : matches(imageFiles[m], htmlFiles[h]) } }
      unmatchedFiles == SelectSeq(imageFiles, LAMBDA img : img.name \notin matchedImages)
  IN  [groups    |-> [k \in 1..Len(htmlFiles) |-> groupOf(htmlFiles[k])],
       unmatched |-> [k \in 1..Len(unmatchedFiles) |-> unmatchedFiles[k].name]]


(***************************************************************************)
(* The binary sniffer and the media type of an image.  A buffer is a       *)
(* sequence of bytes; buffer[k] of the source is at(buffer, k), which is   *)
(* undefined past the end.  A media type is a string, "image/" followed by *)
(* the characters of the format.                                           *)
(***************************************************************************)
Undefined == -1

at(buffer, k) == IF k < Len(buffer) THEN buffer[k + 1] ELSE Undefined

\* the null of detectMimeType's result type, apart from every media type
NoMime == <<"null">>

ImagePng  == <<"image/", "p", "n", "g">>
ImageJpeg == <<"image/", "j", "p", "e", "g">>
ImageGif  == <<"image/", "g", "i", "f">>
ImageWebp == <<"image/", "w", "e", "b", "p">>

\* mutant: a buffer of fewer than four bytes is looked at too
detectMimeTypeNoMinLength(buffer) ==
  IF at(buffer, 0) = 137 /\ at(buffer, 1) = 80 /\ at(buffer, 2) = 78 /\ at(buffer, 3) = 71
    THEN ImagePng
  ELSE IF at(buffer, 0) = 255 /\ at(buffer, 1) = 216 /\ at(buffer, 2) = 255
    THEN ImageJpeg
  ELSE IF at(buffer, 0) = 71 /\ at(buffer, 1) = 73 /\ at(buffer, 2) = 70 /\ at(buffer, 3) = 56
    THEN ImageGif
  ELSE IF /\ Len(buffer) >= 12
          /\ at(buffer, 0) = 82 /\ at(buffer, 1) = 73 /\ at(buffer, 2) = 70 /\ at(buffer, 3) = 70
          /\ at(buffer, 8) = 87 /\ at(buffer, 9) = 69 /\ at(buffer, 10) = 66 /\ at(buffer, 11) = 80
    THEN ImageWebp
  ELSE NoMime

\* mutant: a RIFF container is taken for WEBP whatever its form type
detectMimeTypeRiffOnly(buffer) ==
  IF Len(buffer) < 4 THEN NoMime
  ELSE IF at(buffer, 0) = 137 /\ at(buffer, 1) = 80 /\ at(buffer, 2) = 78 /\ at(buffer, 3) = 71
    THEN ImagePng
  ELSE IF at(buffer, 0) = 255 /\ at(buffer, 1) = 216 /\ at(buffer, 2) = 255
    THEN ImageJpeg
  ELSE IF at(buffer, 0) = 71 /\ at(buffer, 1) = 73 /\ at(buffer, 2) = 70 /\ at(buffer, 3) = 56
    THEN ImageGif
  ELSE IF /\ Len(buffer) >= 12
          /\ at(buffer, 0) = 82 /\ at(buffer, 1) = 73 /\ at(buffer, 2) = 70 /\ at(buffer, 3) = 70
    THEN ImageWebp
  ELSE NoMime

detectMimeType(buffer) ==
  IF Len(buffer) < 4 THEN NoMime
  \* PNG: 89 50 4E 47
  ELSE IF at(buffer, 0) = 137 /\ at(buffer, 1) = 80 /\ at(buffer, 2) = 78 /\ at(buffer, 3) = 71
    THEN ImagePng
  \* JPEG: FF D8 FF
  ELSE IF at(buffer, 0) = 255 /\ at(buffer, 1) = 216 /\ at(buffer, 2) = 255
    THEN ImageJpeg
  \* GIF: 47 49 46 38
  ELSE IF at(buffer, 0) = 71 /\ at(buffer, 1) = 73 /\ at(buffer, 2) = 70 /\ at(buffer, 3) = 56
    THEN ImageGif
  \* WEBP: 52 49 46 46 at 0 and 57 45 42 50 at 8
  ELSE IF /\ Len(buffer) >= 12
          /\ at(buffer, 0) = 82 /\ at(buffer, 1) = 73 /\ at(buffer, 2) = 70 /\ at(buffer, 3) = 70
          /\ at(buffer, 8) = 87 /\ at(buffer, 9) = 69 /\ at(buffer, 10) = 66 /\ at(buffer, 11) = 80
    THEN ImageWebp
  ELSE NoMime

\* getExtension(name).slice(1) === "jpg" ? "image/jpeg" : `image/${ext}`
extMimeOf(filename) ==
  LET ext == Tail(getExtension(filename))
  IN  IF ext = <<"j", "p", "g">> THEN ImageJpeg ELSE <<"image/">> \o ext

\* mutant: the extension alone decides
mediaTypeExtensionOnly(detectedMime, extMime) == extMime

\* detectedMime || extMime
mediaTypeOf(detectedMime, extMime) ==
  IF detectedMime # NoMime /\ detectedMime # << >> THEN detectedMime ELSE extMime

\* buffer.toString("base64")
Base64Alphabet ==
  << "A", "B", "C", "D", "E", "F", "G", "H", "I", "J", "K", "L", "M", "N", "O", "P",
     "Q", "R", "S", "T", "U", "V", "W", "X", "Y", "Z", "a", "b", "c", "d", "e", "f",
     "g", "h", "i", "j", "k", "l", "m", "n", "o", "p", "q", "r", "s", "t", "u", "v",
     "w", "x", "y", "z", "0", "1", "2", "3", "4", "5", "6", "7", "8", "9", "+", "/" >>

sextet(n, shift) == Base64Alphabet[((n \div shift) % 64) + 1]

RECURSIVE toBase64(_)
toBase64(buffer) ==
  IF Len(buffer) = 0 THEN << >>
  ELSE IF Len(buffer) = 1
    THEN LET n == buffer[1] * 16
         IN  <<sextet(n, 64), sextet(n, 1), "=", "=">>
  ELSE IF Len(buffer) = 2
    THEN LET n == (buffer[1] * 256 + buffer[2]) * 4
         IN  <<sextet(n, 4096), sextet(n, 64), sextet(n, 1), "=">>
  ELSE LET n == buffer[1] * 65536 + buffer[2] * 256 + buffer[3]
       IN  <<sextet(n, 262144), sextet(n, 4096), sextet(n, 64), sextet(n, 1)>>
             \o toBase64(SubSeq(buffer, 4, Len(buffer)))

\* the block pushed for an image file onto the content of the request
imageBlock(imgFile) ==
  [type   |-> "image",
   source |-> [type       |-> "base64",
               media_type |-> mediaTypeOf(detectMimeType(imgFile.data), extMimeOf(imgFile.name)),
               data       |-> toBase64(imgFile.data)]]

\* the text block of the request: the named images and the document's text
promptBlock(grp, htmlText) ==
  [type |-> "text",
   text |-> [imageRefs |-> [k \in 1..Len(grp.imageFiles) |->
                              [name |-> grp.imageFiles[k].name, slug |-> grp.slug]],
             html      |-> htmlText]]

(***************************************************************************)
(* The CSV library.  A text is a sequence of characters; the quote is      *)
(* "\"", the line terminators are "\r" and "\n".                           *)
(***************************************************************************)
\* mutant: a quote inside quotes always ends the quoted field
RECURSIVE parseFromNoEscape(_, _, _, _, _, _)
parseFromNoEscape(text, i, rows, row, field, inQuotes) ==
  IF i > Len(text)
    THEN IF field # << >> \/ Len(row) > 0 THEN Append(rows, Append(row, field)) ELSE rows
  ELSE IF inQuotes
    THEN IF text[i] = "\""
           THEN parseFromNoEscape(text, i + 1, rows, row, field, FALSE)
           ELSE parseFromNoEscape(text, i + 1, rows, row, Append(field, text[i]), TRUE)
  ELSE IF text[i] = "\""
    THEN parseFromNoEscape(text, i + 1, rows, row, field, TRUE)
  ELSE IF text[i] = ","
    THEN parseFromNoEscape(text, i + 1, rows, Append(row, field), << >>, FALSE)
  ELSE IF text[i] = "\r"
    THEN parseFromNoEscape(text,
                   IF i + 1 <= Len(text) /\ text[i + 1] = "\n" THEN i + 2 ELSE i + 1,
                   Append(rows, Append(row, field)), << >>, << >>, FALSE)
  ELSE IF text[i] = "\n"
    THEN parseFromNoEscape(text, i + 1, Append(rows, Append(row, field)), << >>, << >>, FALSE)
  ELSE parseFromNoEscape(text, i + 1, rows, row, Append(field, text[i]), FALSE)

\* the loop of parseCSV from position i (1-based) on, and its final field/row
RECURSIVE parseFrom(_, _, _, _, _, _)
parseFrom(text, i, rows, row, field, inQuotes) ==
  IF i > Len(text)
    THEN IF field # << >> \/ Len(row) > 0 THEN Append(rows, Append(row, field)) ELSE rows
  ELSE IF inQuotes
    THEN IF text[i] = "\""
           THEN IF i + 1 <= Len(text) /\ text[i + 1] = "\""
                  THEN parseFrom(text, i + 2, rows, row, Append(field, "\""), TRUE)
                  ELSE parseFrom(text, i + 1, rows, row, field, FALSE)
           ELSE parseFrom(text, i + 1, rows, row, Append(field, text[i]), TRUE)
  ELSE IF text[i] = "\""
    THEN parseFrom(text, i + 1, rows, row, field, TRUE)
  ELSE IF text[i] = ","
    THEN parseFrom(text, i + 1, rows, Append(row, field), << >>, FALSE)
  ELSE IF text[i] = "\r"
    THEN parseFrom(text,
                   IF i + 1 <= Len(text) /\ text[i + 1] = "\n" THEN i + 2 ELSE i + 1,
                   Append(rows, Append(row, field)), << >>, << >>, FALSE)
  ELSE IF text[i] = "\n"
    THEN parseFrom(text, i + 1, Append(rows, Append(row, field)), << >>, << >>, FALSE)
  ELSE parseFrom(text, i + 1, rows, row, Append(field, text[i]), FALSE)

parseCSV(text) == parseFrom(text, 1, << >>, << >>, << >>, FALSE)

\* cell.replace(/\|/g, "\\|")
RECURSIVE escapePipes(_)
escapePipes(cell) ==
  IF cell = << >> THEN << >>
  ELSE (IF Head(cell) = "|" THEN <<"\\", "|">> ELSE <<Head(cell)>>) \o escapePipes(Tail(cell))

isSpace(c) == c \in {" ", "\t", "\n", "\r"}

\* s.trim()
RECURSIVE trim(_)
trim(s) ==
  IF s = << >> THEN << >>
  ELSE IF isSpace(Head(s)) THEN trim(Tail(s))
  ELSE IF isSpace(s[Len(s)]) THEN trim(SubSeq(s, 1, Len(s) - 1))
  ELSE s

escape(cell) == trim(escapePipes(cell))

\* parts.join(sep)
RECURSIVE join(_, _)
join(parts, sep) ==
  IF Len(parts) = 0 THEN << >>
  ELSE IF Len(parts) = 1 THEN parts[1]
  ELSE parts[1] \o sep \o join(Tail(parts), sep)

\* "| " + cells.join(" | ") + " |"
tableLine(cells) == <<"|", " ">> \o join(cells, <<" ", "|", " ">>) \o <<" ", "|">>

\* const padded = [...row]; while (padded.length < n) padded.push("")
padded(row, n) ==
  [j \in 1..(IF Len(row) < n THEN n ELSE Len(row)) |-> IF j <= Len(row) THEN row[j] ELSE << >>]

csvToMarkdownTable(rows) ==
  IF Len(rows) = 0 THEN << >>
  ELSE LET header   == rows[1]
           dataRows == Tail(rows)
           lines ==
             << tableLine([j \in 1..Len(header) |-> escape(header[j])]),
                tableLine([j \in 1..Len(header) |-> <<"-", "-", "-">>]) >>
               \o [k \in 1..Len(dataRows) |->
                     tableLine([j \in 1..Len(padded(dataRows[k], Len(header))) |->
                                  escape(padded(dataRows[k], Len(header))[j])])]
       IN  join(lines, <<"\n">>)

(***************************************************************************)
(* The upload offered to the route: the first n files of a fixed catalog,  *)
(* n up to MaxFiles, or the images among them without any document.  The   *)
(* catalog holds documents whose names collide on                          *)
(* one slug, a name with whitespace, matching and orphan images, an        *)
(* upper-case extension and a file that is neither document nor image.     *)
(***************************************************************************)
Catalog ==
  << [name |-> <<"A", ".", "h", "t", "m", "l">>,           data |-> <<"h1">>],
     [name |-> <<"A", "-", "1", ".", "p", "n", "g">>,      data |-> <<137, 80, 78, 71>>],
     [name |-> <<"B", ".", "h", "t", "m">>,                data |-> <<"h2">>],
     [name |-> <<"O", ".", "p", "n", "g">>,                data |-> <<255, 216, 255>>],
     [name |-> <<"A", ".", "h", "t", "m">>,                data |-> <<"h3">>],
     [name |-> <<"C", " ", "D", ".", "h", "t", "m", "l">>, data |-> <<"h4">>],
     [name |-> <<"B", "_", "2", ".", "P", "N", "G">>,      data |-> <<71, 73, 70, 56>>],
     [name |-> <<"n", ".", "t", "x", "t">>,                data |-> <<"t">>],
     [name |-> <<"A", "_", "2", ".", "g", "i", "f">>,      data |-> <<71, 73, 70, 56, 57>>] >>

CatalogPrefixes == { SubSeq(Catalog, 1, n) : n \in 0..Min(MaxFiles, Len(Catalog)) }

Uploads == CatalogPrefixes \cup { imageFilesOf(fs) : fs \in CatalogPrefixes }

RetryUploads == { SubSeq(Catalog, 1, n) : n \in 1..Min(MaxRetryFiles, Len(Catalog)) }

(***************************************************************************)
(* Errors.  An Error object has a message and, for errors of the model     *)
(* client, an HTTP status (0 when the error has none).                     *)
(***************************************************************************)
Error(message, status) == [isError |-> TRUE, message |-> message, status |-> status]

\* rejections of client.messages.create the retry controller is to retry:
\* one per condition of its test
RateLimitErrors ==
  { Error(<<"Too", "many", "requests">>, 429),
    Error(<<"429", "status", "code">>, 0),
    Error(<<"rate_limit", "error">>, 0) }

\* any other rejection of client.messages.create
OtherErrors == { Error(<<"Internal", "server", "error">>, 500) }

ModelErrors == RateLimitErrors \cup OtherErrors

ReadError    == Error(<<"read", "failed">>, 0)
StorageError == Error(<<"ENOSPC">>, 0)
TypeError    == Error(<<"Cannot", "read", "properties", "of", "undefined">>, 0)

\* message.includes(word), on a message given as its words
includes(message, word) == \E k \in 1..Len(message) : message[k] = word

\* mutant: the status of the error is not looked at
isRateLimitMessageOnly(err) ==
  /\ err.isError
  /\ (includes(err.message, "rate_limit") \/ includes(err.message, "429"))

isRateLimit(err) ==
  /\ err.isError
  /\ (includes(err.message, "rate_limit") \/ includes(err.message, "429") \/ err.status = 429)

(***************************************************************************)
(* Responses of the model: a sequence of typed content blocks.  The text   *)
(* the model returns for a document is derived from the document's text.   *)
(***************************************************************************)
TextBlock(text) == [type |-> "text", text |-> text]
OtherBlock == [type |-> "tool_use", text |-> << >>]

markdownOf(htmlText) == <<"md">> \o htmlText

NormalResponse(htmlText) == <<TextBlock(markdownOf(htmlText))>>

Responses(htmlText) ==
  { NormalResponse(htmlText),
    <<OtherBlock, TextBlock(markdownOf(htmlText))>>,
    << >> }


(***************************************************************************)
(* The page store: one page per slug, a directory holding content.md and   *)
(* the page's assets.  A file-system call that throws has no effect.       *)
(***************************************************************************)
NoPage == [dir |-> FALSE, hasContent |-> FALSE, content |-> << >>, assets |-> {}]

PagePaths == { g.slug : g \in { groupFiles(Catalog).groups[k] : k \in 1..Len(groupFiles(Catalog).groups) } }

\* mutant: the content file is written whether or not it is there
createPageTruncate(page) ==
  [page EXCEPT !.dir = TRUE, !.hasContent = TRUE, !.content = << >>]

createPage(page) ==
  LET made == [page EXCEPT !.dir = TRUE]
  IN  IF made.hasContent THEN made
      ELSE [made EXCEPT !.hasContent = TRUE, !.content = << >>]

\* mutant: content that is already there is kept
savePageContentKeepFirst(page, content) ==
  IF page.hasContent /\ page.content # << >>
    THEN [page EXCEPT !.dir = TRUE]
    ELSE [page EXCEPT !.dir = TRUE, !.hasContent = TRUE, !.content = content]

savePageContent(page, content) ==
  [page EXCEPT !.dir = TRUE, !.hasContent = TRUE, !.content = content]

\* mutant: the asset is stored under its lower-cased name
saveImageToPageLowerCase(page, filename, buffer) ==
  [page EXCEPT !.dir = TRUE,
               !.assets = { a \in @ : a.name # toLowerCase(filename) }
                            \cup { [name |-> toLowerCase(filename), data |-> buffer] }]

saveImageToPage(page, filename, buffer) ==
  [page EXCEPT !.dir = TRUE,
               !.assets = { a \in @ : a.name # filename }
                            \cup { [name |-> filename, data |-> buffer] }]

getPageContent(page) == IF page.hasContent THEN page.content ELSE << >>

\* mutant: the loop goes on after a write that failed
RECURSIVE saveImagesAll(_, _, _)
saveImagesAll(page, imageBuffers, n) ==
  IF Len(imageBuffers) = 0 THEN page
  ELSE saveImageToPage(saveImagesAll(page, SubSeq(imageBuffers, 1, Len(imageBuffers) - 1), 0),
                       imageBuffers[Len(imageBuffers)].name,
                       imageBuffers[Len(imageBuffers)].data)

\* the loop of processGroup that saves the first n image buffers
RECURSIVE saveImages(_, _, _)
saveImages(page, imageBuffers, n) ==
  IF n = 0 THEN page
  ELSE saveImageToPage(saveImages(page, imageBuffers, n - 1),
                       imageBuffers[n].name, imageBuffers[n].data)

(***************************************************************************)
(* The storage phase of processGroup, which has no suspension point.  The  *)
(* file-system call that throws is chosen by the environment: 0 none,      *)
(* 1 the mkdirSync of createPage, 2 the writeFileSync of createPage,       *)
(* 3 the writeFileSync of savePageContent, 3 + j the writeFileSync of the  *)
(* j-th saveImageToPage.                                                   *)
(***************************************************************************)
StorageFaults(page, imageBuffers) ==
  {0, 3}
    \cup (IF page.dir THEN {} ELSE {1})
    \cup (IF page.hasContent THEN {} ELSE {2})
    \cup { 3 + j : j \in 1..Len(imageBuffers) }

\* mutant: the assets are written before the page is created and its content saved
storagePhaseAssetsFirst(page, markdown, imageBuffers, fault) ==
  CASE fault = 1 -> saveImages(page, imageBuffers, Len(imageBuffers))
    [] fault = 2 -> [saveImages(page, imageBuffers, Len(imageBuffers)) EXCEPT !.dir = TRUE]
    [] fault = 3 -> createPage(saveImages(page, imageBuffers, Len(imageBuffers)))
    [] OTHER ->
         savePageContent(createPage(
             saveImages(page, imageBuffers,
                        IF fault = 0 THEN Len(imageBuffers) ELSE fault - 4)), markdown)

\* mutant: the phase ends after the content write, the assets are written later
storagePhaseContentOnly(page, markdown, imageBuffers, fault) ==
  CASE fault = 1 -> page
    [] fault = 2 -> [page EXCEPT !.dir = TRUE]
    [] fault = 3 -> createPage(page)
    [] OTHER -> savePageContent(createPage(page), markdown)

storagePhase(page, markdown, imageBuffers, fault) ==
  CASE fault = 1 -> page
    [] fault = 2 -> [page EXCEPT !.dir = TRUE]
    [] fault = 3 -> createPage(page)
    [] OTHER ->
         saveImages(savePageContent(createPage(page), markdown), imageBuffers,
                    IF fault = 0 THEN Len(imageBuffers) ELSE fault - 4)

\* whether the storage phase got past its savePageContent
wroteContent(fault) == fault = 0 \/ fault > 3

(***************************************************************************)
(* Results.                                                                *)
(***************************************************************************)
\* mutant: the success carries an empty error
SuccessWithError(group) ==
  [name |-> group.name, slug |-> group.slug, success |-> TRUE, error |-> << >>]

Success(group) == [name |-> group.name, slug |-> group.slug, success |-> TRUE]

Failure(group, message) ==
  [name |-> group.name, slug |-> group.slug, success |-> FALSE, error |-> message]

\* mutant: the failure is labelled with the slug
taskCatchSlugAsName(group, err) ==
  [name |-> group.slug, slug |-> group.slug, success |-> FALSE, error |-> err.message]

\* mutant: the test of the error's type is inverted
taskCatchUnknown(group, err) ==
  Failure(group, IF ~err.isError THEN err.message ELSE <<"Unknown error">>)

\* the catch of a task of POST: what the task resolves with when processGroup threw err
taskCatch(group, err) ==
  Failure(group, IF err.isError THEN err.message ELSE <<"Unknown error">>)

\* mutant: a group without a document is reported as imported
noHtmlFileAsSuccess(group) == Success(group)

\* the first lines of processGroup: a group without a document fails at once
noHtmlFile(group) == Failure(group, <<"No HTML file">>)

\* the text of the first content block when it is a text block, "" otherwise;
\* response.content[0] of an empty response is undefined and reading its type throws
markdownThrows(response) == Len(response) = 0

markdownFrom(response) ==
  IF response[1].type = "text" THEN response[1].text ELSE << >>


(***************************************************************************)
(* The state of one import request.                                        *)
(***************************************************************************)
VARIABLES
  files,      \* the uploaded files, in upload order
  apiKey,     \* whether ANTHROPIC_API_KEY is configured
  post,       \* where POST is: "received", "running", "responded"
  response,   \* the response POST returned, Null before
  groups,     \* the units made by groupFiles
  unmatched,  \* the unmatched image names made by groupFiles
  nextIndex,  \* the shared cursor of runWithConcurrency
  workers,    \* the workers of runWithConcurrency: what each awaits
  results,    \* the result array of runWithConcurrency, Null where still empty
  notes,      \* the page store
  upc,        \* per task: where its processGroup is
  attempt,    \* per task: the loop variable of callClaudeWithRetry
  nread,      \* per task: how many image files have been read
  settled,    \* per task: what the task's promise resolved with, Null before
  claims,     \* per task: how many times a worker claimed its index
  inv,        \* per task: how many times client.messages.create was invoked
  waits,      \* per task: the delays slept, in order
  calls,      \* per task: how each finished invocation ended ("ok", "rate", "other")
  thrown,     \* per task: the error that escaped processGroup, Null if none
  got,        \* per task: the response callClaudeWithRetry returned, Null if none
  faultAt,    \* per task: the file-system call of its storage phase that threw, 0 if none
  sniffed,    \* per task: what detectMimeType returned for each image read, in order
  contentBlocks, \* per task: the content of its request to the model, as built so far
  writer,     \* per page: the task that last wrote its content, -1 if none
  grouperRuns,\* how many times groupFiles was called
  sink,       \* the log file of the route: "ok", or "failing" when writing to it throws
  budget,     \* how many more times the environment may depart from the normal outcome
  ingest,     \* one request to the ingest route, Null when there is none
  csv,        \* one use of the CSV library, Null when there is none
  preview,    \* the import page of the browser, Null when it is not open
  editor,     \* the page editor of the browser and its save requests, Null when not open
  tree        \* the page tree that movePage works on, Null when it is not looked at

vars == <<files, apiKey, post, response, groups, unmatched, nextIndex, workers,
          results, notes, upc, attempt, nread, settled, claims, inv, waits, calls,
          thrown, got, faultAt, sniffed, contentBlocks, writer, grouperRuns, sink, budget,
          ingest, csv, preview, editor, tree>>

sideVars  == <<ingest, csv, preview, editor, tree>>

schedVars == <<nextIndex, workers, results, claims>>
unitVars  == <<upc, attempt, nread, settled, inv, waits, calls, thrown, got, faultAt,
               sniffed, contentBlocks>>
postVars  == <<files, apiKey, post, response, groups, unmatched, grouperRuns, sink,
               sideVars>>

\* the environment departs from the normal outcome `cost` times in this step
Departs(cost) == budget >= cost /\ budget' = budget - cost

N == Len(groups)
Tasks == 0..(N - 1)
UnitIds == 0..(Len(htmlFilesOf(Catalog)) - 1)
group(i) == groups[i + 1]

Running == {"text", "image", "create", "sleep", "hung"}

InitRequest ==
  /\ post = "received"
  /\ response = Null
  /\ groups = << >>
  /\ unmatched = << >>
  /\ nextIndex = 0
  /\ workers = << >>
  /\ results = << >>
  /\ notes = [p \in PagePaths |-> NoPage]
  /\ upc = << >> /\ attempt = << >> /\ nread = << >> /\ settled = << >>
  /\ claims = << >> /\ inv = << >> /\ waits = << >> /\ calls = << >>
  /\ thrown = << >> /\ got = << >> /\ faultAt = << >>
  /\ sniffed = << >> /\ contentBlocks = << >>
  /\ writer = [p \in PagePaths |-> -1]
  /\ grouperRuns = 0

\* nothing but the import route is looked at
SideIdle ==
  ingest = Null /\ csv = Null /\ preview = Null /\ editor = Null /\ tree = Null

\* the import route has received nothing
ImportIdle ==
  /\ files = << >>
  /\ apiKey = FALSE
  /\ sink = "ok"
  /\ InitRequest

\* any upload, any configuration, a bounded number of faults
Init ==
  /\ files \in Uploads
  /\ apiKey \in BOOLEAN
  /\ budget = MaxFaults
  /\ sink = "ok"
  /\ InitRequest
  /\ SideIdle

(***************************************************************************)
(* runWithConcurrency.  A worker at the head of its loop claims the next   *)
(* index and calls the task, or leaves the loop when no index is left.     *)
(***************************************************************************)
\* mutant: one worker per task, whatever the limit
workerCountAll(n, concurrency) == n

\* mutant: as many workers as the limit, whatever the number of tasks
workerCountLimit(n, concurrency) == concurrency

\* mutant: a single worker, whatever the limit
workerCountOne(n, concurrency) == Min(1, n)

workerCount(n, concurrency) == Min(concurrency, n)

\* mutant: the cursor moves two places on
claimIndexSkip(cursor) == [i |-> cursor, next |-> cursor + 2]

\* const i = nextIndex++
claimIndex(cursor) == [i |-> cursor, next |-> cursor + 1]

\* mutant: a worker takes the tasks from the last one down
workerLoopFromEnd(s, k, n) ==
  IF s.nextIndex < n
    THEN [nextIndex |-> s.nextIndex + 1,
          workers   |-> [s.workers EXCEPT ![k] = [state |-> "awaiting",
                                                  i |-> n - 1 - s.nextIndex]],
          claims    |-> [s.claims EXCEPT ![n - 1 - s.nextIndex] = @ + 1]]
    ELSE [s EXCEPT !.workers[k] = [state |-> "exit", i |-> -1]]

workerLoop(s, k, n) ==
  IF s.nextIndex < n
    THEN LET c == claimIndex(s.nextIndex)
         IN  [nextIndex |-> c.next,
              workers   |-> [s.workers EXCEPT ![k] = [state |-> "awaiting", i |-> c.i]],
              claims    |-> [s.claims EXCEPT ![c.i] = @ + 1]]
    ELSE [s EXCEPT !.workers[k] = [state |-> "exit", i |-> -1]]

\* Array.from({ length }, () => worker()): the workers start one after the other
RECURSIVE spawnWorkers(_, _, _)
spawnWorkers(s, k, n) ==
  IF k = 0 THEN s ELSE workerLoop(spawnWorkers(s, k - 1, n), k, n)

\* mutant: results are pushed in the order the tasks complete
resultSlotPush(i, res) == Cardinality({ j \in DOMAIN res : res[j] # Null })

\* results[i] = await tasks[i](): the position the result of task i is stored at
resultSlot(i, res) == i

(***************************************************************************)
(* log.  The line is appended to the log file inside a try whose catch is  *)
(* empty: whatever the sink does, nothing escapes the call.  What escapes  *)
(* a call of log (Null: nothing) is looked at by the caller at the first   *)
(* call of log of each continuation that runs inside a try of the route.   *)
(***************************************************************************)
LogError == Error(<<"EACCES", "import.log">>, 0)

\* mutant: the error of the file system is not caught
logNoCatch(sinkState) == IF sinkState = "failing" THEN LogError ELSE Null

log(sinkState) == Null

\* a called task runs processGroup up to its first await
startPc(g) == IF g.htmlFile = Null \/ log(sink) # Null THEN "settled" ELSE "text"
startThrown(g) == log(sink)
startSettled(g) ==
  IF log(sink) # Null THEN taskCatch(g, log(sink))
  ELSE IF g.htmlFile = Null THEN noHtmlFile(g)
  ELSE Null

(***************************************************************************)
(* POST, from the arrival of the form data to the start of the workers.    *)
(***************************************************************************)
FormError == Error(<<"Failed", "to", "parse", "body">>, 0)

\* the catch of POST: the response for an error thrown by the handler itself
postCatch(err) ==
  [status |-> 500,
   body |-> [error |-> IF err.isError THEN err.message ELSE <<"Import failed">>]]

\* mutant: the configuration is looked at before the files
inputErrorKeyFirst(fs, key) ==
  IF ~key THEN [status |-> 500, body |-> [error |-> <<"ANTHROPIC_API_KEY not configured">>]]
  ELSE IF Len(fs) = 0 THEN [status |-> 400, body |-> [error |-> <<"No files provided">>]]
  ELSE Null

\* mutant: an upload without a document is refused
inputErrorNoDocuments(fs, key) ==
  IF Len(fs) = 0 THEN [status |-> 400, body |-> [error |-> <<"No files provided">>]]
  ELSE IF ~key THEN [status |-> 500, body |-> [error |-> <<"ANTHROPIC_API_KEY not configured">>]]
  ELSE IF Len(htmlFilesOf(fs)) = 0
    THEN [status |-> 400, body |-> [error |-> <<"No HTML files provided">>]]
  ELSE Null

\* mutant: the configuration is not looked at
inputErrorFilesOnly(fs, key) ==
  IF Len(fs) = 0 THEN [status |-> 400, body |-> [error |-> <<"No files provided">>]]
  ELSE Null

\* the two early returns of POST: the response it returns, Null when it goes on
inputError(fs, key) ==
  IF Len(fs) = 0 THEN [status |-> 400, body |-> [error |-> <<"No files provided">>]]
  ELSE IF ~key THEN [status |-> 500, body |-> [error |-> <<"ANTHROPIC_API_KEY not configured">>]]
  ELSE Null

\* mutant: the files are grouped before the request is looked at
RejectsAfterGrouping(resp) ==
  /\ post' = "responded"
  /\ response' = resp
  /\ grouperRuns' = grouperRuns + 1
  /\ UNCHANGED <<sideVars, sink, files, apiKey, groups, unmatched, notes, writer>>
  /\ UNCHANGED schedVars
  /\ UNCHANGED unitVars

\* POST returns an error response without having started anything
Rejects(resp) ==
  /\ post' = "responded"
  /\ response' = resp
  /\ UNCHANGED <<sideVars, sink, files, apiKey, groups, unmatched, grouperRuns, notes, writer>>
  /\ UNCHANGED schedVars
  /\ UNCHANGED unitVars

\* the tasks are built from the units gs and runWithConcurrency starts its workers
Runs(gs, um) ==
  \E s1 \in {spawnWorkers(
                [nextIndex |-> 0,
                 workers   |-> [k \in 1..workerCount(Len(gs), CONCURRENCY) |->
                                  [state |-> "new", i |-> -1]],
                 claims    |-> [i \in 0..(Len(gs) - 1) |-> 0]],
                workerCount(Len(gs), CONCURRENCY), Len(gs))} :
  LET n == Len(gs)
  IN  /\ post' = "running"
      /\ groups' = gs
      /\ unmatched' = um
      /\ nextIndex' = s1.nextIndex
      /\ workers' = s1.workers
      /\ claims' = s1.claims
      /\ results' = [i \in 0..(n - 1) |-> Null]
      /\ upc' = [i \in 0..(n - 1) |->
                   IF s1.claims[i] > 0 THEN startPc(gs[i + 1]) ELSE "idle"]
      /\ settled' = [i \in 0..(n - 1) |->
                   IF s1.claims[i] > 0 THEN startSettled(gs[i + 1]) ELSE Null]
      /\ attempt' = [i \in 0..(n - 1) |-> 0]
      /\ nread' = [i \in 0..(n - 1) |-> 0]
      /\ inv' = [i \in 0..(n - 1) |-> 0]
      /\ waits' = [i \in 0..(n - 1) |-> << >>]
      /\ calls' = [i \in 0..(n - 1) |-> << >>]
      /\ thrown' = [i \in 0..(n - 1) |->
                   IF s1.claims[i] > 0 THEN startThrown(gs[i + 1]) ELSE Null]
      /\ got' = [i \in 0..(n - 1) |-> Null]
      /\ faultAt' = [i \in 0..(n - 1) |-> 0]
      /\ sniffed' = [i \in 0..(n - 1) |-> << >>]
      /\ contentBlocks' = [i \in 0..(n - 1) |-> << >>]
      /\ UNCHANGED <<sideVars, sink, files, apiKey, response, notes, writer>>

\* req.formData() resolves
PostStart ==
  /\ post = "received"
  /\ \E early \in {inputError(files, apiKey)} :
       IF log(sink) # Null
         THEN Rejects(postCatch(log(sink))) /\ UNCHANGED budget
       ELSE IF early # Null
         THEN Rejects(early) /\ UNCHANGED budget
         ELSE \E gf \in {groupFiles(files)} :
                /\ grouperRuns' = grouperRuns + 1
                /\ Runs(gf.groups, gf.unmatched)
                /\ UNCHANGED budget

\* req.formData() rejects: the catch of POST answers
FormDataReject ==
  /\ post = "received"
  /\ Departs(1)
  /\ Rejects(postCatch(FormError))

\* a worker resumes after its task settled: it stores the result and loops
WorkerResume(k) ==
  /\ post = "running"
  /\ k \in DOMAIN workers
  /\ workers[k].state = "awaiting"
  /\ upc[workers[k].i] = "settled"
  /\ LET i  == workers[k].i
         s1 == workerLoop([nextIndex |-> nextIndex, workers |-> workers, claims |-> claims],
                          k, N)
         started == { j \in Tasks : s1.claims[j] > claims[j] }
     IN  /\ results' = [results EXCEPT ![resultSlot(i, results)] = settled[i]]
         /\ nextIndex' = s1.nextIndex
         /\ workers' = s1.workers
         /\ claims' = s1.claims
         /\ upc' = [j \in Tasks |-> IF j \in started THEN startPc(group(j)) ELSE upc[j]]
         /\ settled' = [j \in Tasks |->
                          IF j \in started THEN startSettled(group(j)) ELSE settled[j]]
         /\ thrown' = [j \in Tasks |->
                         IF j \in started THEN startThrown(group(j)) ELSE thrown[j]]
         /\ UNCHANGED <<sniffed, contentBlocks, faultAt, attempt, nread, inv, waits, calls, got>>
         /\ UNCHANGED <<notes, writer, budget>>
         /\ UNCHANGED postVars

\* mutant: POST returns the report without waiting for the workers
PostRespondNoWait ==
  /\ post = "running"
  /\ post' = "responded"
  /\ response' = [status |-> 200, body |-> [results |-> results, unmatched |-> unmatched]]
  /\ UNCHANGED <<sideVars, sink, files, apiKey, groups, unmatched, grouperRuns, notes, writer, budget>>
  /\ UNCHANGED schedVars
  /\ UNCHANGED unitVars

\* await Promise.all(workers) is over: POST returns the report
PostRespond ==
  /\ post = "running"
  /\ \A k \in DOMAIN workers : workers[k].state = "exit"
  /\ post' = "responded"
  /\ response' = IF log(sink) # Null
                    THEN postCatch(log(sink))
                    ELSE [status |-> 200,
                          body |-> [results |-> results, unmatched |-> unmatched]]
  /\ UNCHANGED <<sideVars, sink, files, apiKey, groups, unmatched, grouperRuns, notes, writer, budget>>
  /\ UNCHANGED schedVars
  /\ UNCHANGED unitVars


(***************************************************************************)
(* callClaudeWithRetry.                                                    *)
(***************************************************************************)
\* mutant: a rate-limited attempt is retried however many attempts were made
shouldRetryUnbounded(err, att) == isRateLimit(err)

\* mutant: every failed attempt is retried, whatever the error
shouldRetryAnyError(err, att) == att < MAX_RETRIES

shouldRetry(err, att) == isRateLimit(err) /\ att < MAX_RETRIES

\* mutant: the delay doubles with every attempt
retryDelayExponential(att) == RETRY_BASE_DELAY_MS * (2 ^ att)

retryDelay(att) == RETRY_BASE_DELAY_MS * (att + 1)

\* whether the loop of callClaudeWithRetry goes round once more
loopContinues(att) == att <= MAX_RETRIES

MaxRetriesExceeded == Error(<<"Max retries exceeded">>, 0)

\* what the environment meant by a rejection (not visible to the program)
kindOf(err) == IF err \in RateLimitErrors THEN "rate" ELSE "other"

(***************************************************************************)
(* processGroup, one action per continuation after an await.               *)
(***************************************************************************)
htmlText(i) == group(i).htmlFile.data
imageBuffers(i) == group(i).imageFiles
page(i) == notes[group(i).slug]

\* processGroup of task i throws err: the task's catch turns it into a failure
Throws(i, err) ==
  /\ upc' = [upc EXCEPT ![i] = "settled"]
  /\ thrown' = [thrown EXCEPT ![i] = err]
  /\ settled' = [settled EXCEPT ![i] = taskCatch(group(i), err)]

\* client.messages.create is invoked
Invokes(i) ==
  /\ upc' = [upc EXCEPT ![i] = "create"]
  /\ inv' = [inv EXCEPT ![i] = @ + 1]
  /\ UNCHANGED <<thrown, settled>>

\* group.htmlFile.text() resolves
TextResolve(i) ==
  /\ i \in Tasks /\ upc[i] = "text"
  /\ IF log(sink) # Null
       THEN /\ Throws(i, log(sink))
            /\ UNCHANGED <<inv, contentBlocks>>
     ELSE IF Len(group(i).imageFiles) = 0
       THEN /\ contentBlocks' = [contentBlocks EXCEPT ![i] =
                                   <<promptBlock(group(i), htmlText(i))>>]
            /\ Invokes(i)
       ELSE /\ upc' = [upc EXCEPT ![i] = "image"]
            /\ UNCHANGED <<inv, thrown, settled, contentBlocks>>
  /\ UNCHANGED <<sniffed, faultAt, attempt, nread, waits, calls, got, notes, writer, budget>>
  /\ UNCHANGED schedVars
  /\ UNCHANGED postVars

\* group.htmlFile.text() rejects
TextReject(i) ==
  /\ i \in Tasks /\ upc[i] = "text"
  /\ Departs(1)
  /\ Throws(i, ReadError)
  /\ UNCHANGED <<sniffed, contentBlocks, faultAt, attempt, nread, inv, waits, calls, got, notes, writer>>
  /\ UNCHANGED schedVars
  /\ UNCHANGED postVars

\* imgFile.arrayBuffer() resolves for the next image
ImageResolve(i) ==
  /\ i \in Tasks /\ upc[i] = "image"
  /\ nread' = [nread EXCEPT ![i] = @ + 1]
  /\ \E imgFile \in {group(i).imageFiles[nread[i] + 1]} :
       /\ sniffed' = [sniffed EXCEPT ![i] = Append(@, detectMimeType(imgFile.data))]
       /\ IF log(sink) # Null
            THEN /\ Throws(i, log(sink))
                 /\ UNCHANGED <<inv, contentBlocks>>
          ELSE IF nread[i] + 1 = Len(group(i).imageFiles)
            THEN /\ contentBlocks' = [contentBlocks EXCEPT ![i] =
                        Append(Append(@, imageBlock(imgFile)),
                               promptBlock(group(i), htmlText(i)))]
                 /\ Invokes(i)
            ELSE /\ contentBlocks' = [contentBlocks EXCEPT ![i] =
                                        Append(@, imageBlock(imgFile))]
                 /\ UNCHANGED <<upc, inv, thrown, settled>>
  /\ UNCHANGED <<faultAt, attempt, waits, calls, got, notes, writer, budget>>
  /\ UNCHANGED schedVars
  /\ UNCHANGED postVars

\* imgFile.arrayBuffer() rejects
ImageReject(i) ==
  /\ i \in Tasks /\ upc[i] = "image"
  /\ Departs(1)
  /\ Throws(i, ReadError)
  /\ UNCHANGED <<sniffed, contentBlocks, faultAt, attempt, nread, inv, waits, calls, got, notes, writer>>
  /\ UNCHANGED schedVars
  /\ UNCHANGED postVars

\* client.messages.create resolves: callClaudeWithRetry returns the response,
\* processGroup extracts the markdown and runs its storage phase
CreateResolve(i) ==
  /\ i \in Tasks /\ upc[i] = "create"
  /\ \E r \in Responses(htmlText(i)) :
       /\ calls' = [calls EXCEPT ![i] = Append(@, "ok")]
       /\ got' = [got EXCEPT ![i] = r]
       /\ IF log(sink) # Null
            THEN /\ Departs(IF r = NormalResponse(htmlText(i)) THEN 0 ELSE 1)
                 /\ Throws(i, log(sink))
                 /\ UNCHANGED <<notes, writer, faultAt>>
          ELSE IF markdownThrows(r)
            THEN /\ Departs(1)
                 /\ Throws(i, TypeError)
                 /\ UNCHANGED <<notes, writer, faultAt>>
            ELSE \E fault \in StorageFaults(page(i), imageBuffers(i)) :
                   /\ Departs((IF r = NormalResponse(htmlText(i)) THEN 0 ELSE 1)
                              + (IF fault = 0 THEN 0 ELSE 1))
                   /\ notes' = [notes EXCEPT ![group(i).slug] =
                                  storagePhase(@, markdownFrom(r), imageBuffers(i), fault)]
                   /\ writer' = IF wroteContent(fault)
                                  THEN [writer EXCEPT ![group(i).slug] = i]
                                  ELSE writer
                   /\ faultAt' = [faultAt EXCEPT ![i] = fault]
                   /\ IF fault = 0
                        THEN /\ upc' = [upc EXCEPT ![i] = "settled"]
                             /\ settled' = [settled EXCEPT ![i] = Success(group(i))]
                             /\ UNCHANGED thrown
                        ELSE Throws(i, StorageError)
  /\ UNCHANGED <<attempt, nread, inv, waits, sniffed, contentBlocks>>
  /\ UNCHANGED schedVars
  /\ UNCHANGED postVars

\* client.messages.create rejects: the catch of callClaudeWithRetry
CreateReject(i) ==
  /\ i \in Tasks /\ upc[i] = "create"
  /\ Departs(1)
  /\ \E err \in ModelErrors :
       /\ calls' = [calls EXCEPT ![i] = Append(@, kindOf(err))]
       /\ IF shouldRetry(err, attempt[i]) /\ log(sink) # Null
            THEN /\ Throws(i, log(sink))
                 /\ UNCHANGED waits
          ELSE IF shouldRetry(err, attempt[i])
            THEN /\ waits' = [waits EXCEPT ![i] = Append(@, retryDelay(attempt[i]))]
                 /\ upc' = [upc EXCEPT ![i] = "sleep"]
                 /\ UNCHANGED <<thrown, settled>>
            ELSE /\ Throws(i, err)
                 /\ UNCHANGED waits
  /\ UNCHANGED <<sniffed, contentBlocks, faultAt, attempt, nread, inv, got, notes, writer>>
  /\ UNCHANGED schedVars
  /\ UNCHANGED postVars

\* the timer of sleep(delay) fires: continue, attempt++, the loop test
SleepDone(i) ==
  /\ i \in Tasks /\ upc[i] = "sleep"
  /\ attempt' = [attempt EXCEPT ![i] = @ + 1]
  /\ IF loopContinues(attempt[i] + 1)
       THEN Invokes(i)
       ELSE /\ Throws(i, MaxRetriesExceeded)
            /\ UNCHANGED inv
  /\ UNCHANGED <<sniffed, contentBlocks, faultAt, nread, waits, calls, got, notes, writer, budget>>
  /\ UNCHANGED schedVars
  /\ UNCHANGED postVars

\* client.messages.create never settles
CreateHang(i) ==
  /\ i \in Tasks /\ upc[i] = "create"
  /\ Departs(1)
  /\ upc' = [upc EXCEPT ![i] = "hung"]
  /\ UNCHANGED <<sniffed, contentBlocks, faultAt, attempt, nread, settled, inv, waits, calls, thrown, got, notes, writer>>
  /\ UNCHANGED schedVars
  /\ UNCHANGED postVars

UnitStep(i) ==
  \/ TextResolve(i)
  \/ TextReject(i)
  \/ ImageResolve(i)
  \/ ImageReject(i)
  \/ CreateResolve(i)
  \/ CreateReject(i)
  \/ SleepDone(i)

Next ==
  \/ PostStart
  \/ FormDataReject
  \/ PostRespond
  \/ \E k \in 1..CONCURRENCY : WorkerResume(k)
  \/ \E i \in UnitIds : UnitStep(i)
  \/ \E i \in UnitIds : CreateHang(i)

Spec == Init /\ [][Next]_vars

(***************************************************************************)
(* The retry controller on its own: an upload of one document, with every  *)
(* fault the environment can raise while that unit is processed.           *)
(***************************************************************************)
InitRetry ==
  /\ files \in RetryUploads
  /\ apiKey = TRUE
  /\ budget = (MAX_RETRIES + 2) * Len(htmlFilesOf(files))
  /\ sink = "ok"
  /\ InitRequest
  /\ SideIdle

RetrySpec == InitRetry /\ [][Next]_vars


(***************************************************************************)
(* The whole route under the scheduling of the event loop: a continuation  *)
(* that is ready runs (timers fire, settled promises resume their          *)
(* awaiters, file reads settle), and a model call settles unless it hangs. *)
(***************************************************************************)
InitFair ==
  /\ files \in Uploads
  /\ apiKey \in BOOLEAN
  /\ budget = MaxFairFaults
  /\ sink = "ok"
  /\ InitRequest
  /\ SideIdle

FairSpec ==
  /\ InitFair
  /\ [][Next]_vars
  /\ WF_vars(Next)


(***************************************************************************)
(* processGroup on every unit its parameter type admits: the units the     *)
(* grouper makes of the whole catalog, and the same units without their    *)
(* document (htmlFile: File | null).  The tasks are built from the given   *)
(* units and run by runWithConcurrency as in POST.                         *)
(***************************************************************************)
CatalogGroups ==
  { groupFiles(Catalog).groups[k] : k \in 1..Len(groupFiles(Catalog).groups) }

NoDocumentGroups == { [g EXCEPT !.htmlFile = Null] : g \in CatalogGroups }

DirectBatches ==
  { <<g>> : g \in CatalogGroups \cup NoDocumentGroups }
    \cup { <<g, h>> : g \in NoDocumentGroups, h \in CatalogGroups }

InitUnit ==
  /\ files = Catalog
  /\ apiKey = TRUE
  /\ budget = MaxFaults
  /\ sink = "ok"
  /\ InitRequest
  /\ SideIdle

DirectStart ==
  /\ post = "received"
  /\ \E gs \in DirectBatches : Runs(gs, << >>)
  /\ UNCHANGED <<grouperRuns, budget>>

UnitNext ==
  \/ DirectStart
  \/ PostRespond
  \/ \E k \in 1..CONCURRENCY : WorkerResume(k)
  \/ \E i \in UnitIds : UnitStep(i)
  \/ \E i \in UnitIds : CreateHang(i)

UnitSpec == InitUnit /\ [][UnitNext]_vars

(***************************************************************************)
(* groupFiles on its own, on every list of up to MaxGroupFiles files whose *)
(* names are taken from a pool: two documents of which one's base name     *)
(* extends the other's, images whose base name equals a document's,        *)
(* extends it after "-" or "_", extends it without separator, or differs   *)
(* from it in case only, and a file that is neither document nor image.    *)
(***************************************************************************)
GroupPool ==
  { <<"N", ".", "h", "t", "m", "l">>,
    <<"N", "-", "o", ".", "h", "t", "m">>,
    <<"N", "-", "o", "-", "1", ".", "p", "n", "g">>,
    <<"N", "_", "2", ".", "j", "p", "g">>,
    <<"N", ".", "p", "n", "g">>,
    <<"N", "-", "o", ".", "g", "i", "f">>,
    <<"N", "x", ".", "p", "n", "g">>,
    <<"n", ".", "p", "n", "g">>,
    <<"N", ".", "t", "x", "t">> }

RECURSIVE FileLists(_)
FileLists(n) ==
  IF n = 0 THEN { << >> }
  ELSE LET shorter == FileLists(n - 1)
       IN  shorter \cup { Append(fs, [name |-> nm, data |-> << >>]) :
                            fs \in { l \in shorter : Len(l) = n - 1 }, nm \in GroupPool }

InitGroup ==
  /\ files \in FileLists(MaxGroupFiles)
  /\ apiKey = TRUE
  /\ budget = 0
  /\ sink = "ok"
  /\ InitRequest
  /\ SideIdle

\* const { groups, unmatched } = groupFiles(files)
GroupFilesCall ==
  /\ post = "received"
  /\ \E gf \in {groupFiles(files)} :
       /\ groups' = gf.groups
       /\ unmatched' = gf.unmatched
  /\ grouperRuns' = grouperRuns + 1
  /\ post' = "grouped"
  /\ UNCHANGED <<sideVars, sink, files, apiKey, response, notes, writer, budget>>
  /\ UNCHANGED schedVars
  /\ UNCHANGED unitVars

GroupSpec == InitGroup /\ [][GroupFilesCall]_vars


(***************************************************************************)
(* The sniffer on its own: an upload of one document and one image of its, *)
(* whose bytes are the first bytes, up to MaxBufferLen, of an image file   *)
(* or of another RIFF container, possibly with the first four bytes of     *)
(* another format and possibly with one byte zeroed, and whose name has    *)
(* any of the image extensions.  The unit is processed up to its request.  *)
(***************************************************************************)
PngFile  == <<137, 80, 78, 71, 13, 10, 26, 10, 0, 0, 0, 13, 73, 72, 68, 82>>
JpegFile == <<255, 216, 255, 224, 0, 16, 74, 70, 73, 70, 0, 1, 1, 0, 0, 1>>
GifFile  == <<71, 73, 70, 56, 57, 97, 1, 0, 1, 0, 128, 0, 0, 255, 255, 255>>
WebpFile == <<82, 73, 70, 70, 36, 0, 0, 0, 87, 69, 66, 80, 86, 80, 56, 32>>
WaveFile == <<82, 73, 70, 70, 36, 0, 0, 0, 87, 65, 86, 69, 102, 109, 116, 32>>

SampleFiles == {PngFile, JpegFile, GifFile, WebpFile, WaveFile}

\* the first four bytes of p before the rest of q
Splice(p, q) == SubSeq(p, 1, 4) \o SubSeq(q, 5, Len(q))

\* b with its c-th byte zeroed (b itself when it has no c-th byte)
Corrupt(b, c) == [k \in 1..Len(b) |-> IF k = c THEN 0 ELSE b[k]]

SniffBuffers ==
  { Corrupt(SubSeq(Splice(p, q), 1, n), c) :
      p \in SampleFiles, q \in SampleFiles, n \in 0..MaxBufferLen, c \in 0..12 }

SniffNames ==
  { <<"A", "-", "1">> \o ext :
      ext \in IMAGE_EXTENSIONS \cup { <<".", "P", "N", "G">> } }

InitSniff ==
  /\ files \in { <<Catalog[1], [name |-> nm, data |-> b]>> :
                   nm \in SniffNames, b \in SniffBuffers }
  /\ apiKey = TRUE
  /\ budget = 0
  /\ sink = "ok"
  /\ InitRequest
  /\ SideIdle

\* POST past its early returns: the files are grouped and the tasks started
SniffStart ==
  /\ post = "received"
  /\ \E gf \in {groupFiles(files)} :
       /\ grouperRuns' = grouperRuns + 1
       /\ Runs(gf.groups, gf.unmatched)
  /\ UNCHANGED budget

SniffNext ==
  \/ SniffStart
  \/ \E i \in UnitIds : TextResolve(i)
  \/ \E i \in UnitIds : ImageResolve(i)

SniffSpec == InitSniff /\ [][SniffNext]_vars

(***************************************************************************)
(* The whole route with a log file that may not be writable: every call of *)
(* log of the request then fails inside log.                               *)
(***************************************************************************)
SinkStates == {"ok", "failing"}

InitLog ==
  /\ files \in Uploads
  /\ apiKey \in BOOLEAN
  /\ budget = MaxFaults
  /\ sink \in SinkStates
  /\ InitRequest
  /\ SideIdle

LogSpec == InitLog /\ [][Next]_vars

(***************************************************************************)
(* The ingest route.  One request: the environment variable                *)
(* INGEST_API_KEY (empty when it is not set), the Authorization header     *)
(* (NoHeader when the request has none) and the fields of the form.  Each  *)
(* action is one continuation of POST between two awaits.                  *)
(***************************************************************************)
ALLOWED_EXTENSIONS ==
  { <<".", "p", "d", "f">>, <<".", "p", "n", "g">>, <<".", "j", "p", "g">>,
    <<".", "j", "p", "e", "g">>, <<".", "c", "s", "v">> }

IMAGE_EXTENSIONS_Ingest ==
  { <<".", "p", "n", "g">>, <<".", "j", "p", "g">>, <<".", "j", "p", "e", "g">> }

NoHeader == <<"null">>

\* `Bearer ${apiKey}`
bearer(key) == <<"B", "e", "a", "r", "e", "r", " ">> \o key

\* the auth check of POST: TRUE when the request is answered 401
unauthorized(key, authHeader) == key # << >> /\ authHeader # bearer(key)

\* slug.split("/").filter(Boolean)
RECURSIVE splitSlug(_, _)
splitSlug(slug, part) ==
  IF slug = << >> THEN (IF part = << >> THEN << >> ELSE <<part>>)
  ELSE IF Head(slug) = "/"
    THEN (IF part = << >> THEN << >> ELSE <<part>>) \o splitSlug(Tail(slug), << >>)
  ELSE splitSlug(Tail(slug), Append(part, Head(slug)))

\* s.replace(/-/g, " ")
replaceDashes(s) == [k \in 1..Len(s) |-> IF s[k] = "-" THEN " " ELSE s[k]]

pageTitleOf(title, file) ==
  IF title # << >> THEN title ELSE replaceDashes(getBaseName(file.name))

\* `# ${pageTitle}\n\n${body}`
ingestMarkdown(pageTitle, body) == <<"#", " ">> \o pageTitle \o <<"\n", "\n">> \o body

\* `/api/notes/images/${slugParts.join("/")}/${filename}`
imageUrl(slugParts, filename) ==
  <<"/api/notes/images/">> \o join(slugParts, <<"/">>) \o <<"/">> \o filename

\* `![${pageTitle}](${imageUrl})`
imageMarkdown(pageTitle, url) == <<"!", "[">> \o pageTitle \o <<"]", "(">> \o url \o <<")">>

IngestOk(slugParts) ==
  [status |-> 200, ok |-> TRUE, slug |-> join(slugParts, <<"/">>),
   path |-> <<"/pages/">> \o join(slugParts, <<"/">>)]

IngestError(status, message) == [status |-> status, error |-> message]

\* the first test of the form that fails, Null when none does
formError(file, slug) ==
  IF file = Null THEN IngestError(400, <<"Missing file">>)
  ELSE IF slug = << >> THEN IngestError(400, <<"Missing slug">>)
  ELSE IF getExtension(file.name) \notin ALLOWED_EXTENSIONS
    THEN IngestError(400, <<"Unsupported file type: ">> \o getExtension(file.name)
                            \o <<". Allowed: PDF, PNG, JPG, CSV">>)
  ELSE Null

\* the requests looked at: files of every branch, slugs of one segment
IngestKeys    == { << >>, <<"k">> }
IngestHeaders == { NoHeader, bearer(<<"k">>), bearer(<<"x">>), <<"k">> }
IngestFiles ==
  { Null,
    [name |-> <<"n", ".", "c", "s", "v">>,
     data |-> <<"a", ",", "b", "\n", "1", ",", "\"", "2", "|", "3", "\"">>],
    [name |-> <<"p", "-", "1", ".", "P", "N", "G">>, data |-> <<137, 80, 78, 71>>],
    [name |-> <<"d", ".", "p", "d", "f">>,           data |-> <<"t", "x", "t">>],
    [name |-> <<"n", ".", "t", "x", "t">>,           data |-> <<"t">>] }
IngestSlugs  == { << >>, <<"A">>, <<"/", "B", "/">> }
IngestTitles == { << >>, <<"T">> }

ingestParts == splitSlug(ingest.slug, << >>)
ingestPage  == ingestParts[1]
ingestExt   == getExtension(ingest.file.name)
ingestTitle == pageTitleOf(ingest.title, ingest.file)

IngestRespond(r) == ingest' = [ingest EXCEPT !.pc = "responded", !.response = r]

importVars == <<files, apiKey, post, response, groups, unmatched, grouperRuns, sink,
                schedVars, unitVars, writer>>

IngestUnchanged == UNCHANGED <<importVars, csv, preview, editor, tree>>

\* POST up to its first await: the auth check, then req.formData() is called
IngestStart ==
  /\ ingest # Null /\ ingest.pc = "received"
  /\ IF unauthorized(ingest.key, ingest.authorization)
       THEN IngestRespond(IngestError(401, <<"Unauthorized">>))
       ELSE ingest' = [ingest EXCEPT !.pc = "formData"]
  /\ UNCHANGED <<notes, budget>>
  /\ IngestUnchanged

\* req.formData() resolves: the form is tested, the file's content is asked for
IngestFormData ==
  /\ ingest # Null /\ ingest.pc = "formData"
  /\ IF formError(ingest.file, ingest.slug) # Null
       THEN IngestRespond(formError(ingest.file, ingest.slug))
       ELSE ingest' = [ingest EXCEPT !.pc =
                         IF ingestExt = <<".", "c", "s", "v">> THEN "text" ELSE "arrayBuffer"]
  /\ UNCHANGED <<notes, budget>>
  /\ IngestUnchanged

\* an awaited promise rejects: the catch of POST answers 500
IngestReject ==
  /\ ingest # Null /\ ingest.pc \in {"formData", "text", "arrayBuffer", "pdfParse"}
  /\ Departs(1)
  /\ IngestRespond(IngestError(500, <<"failed">>))
  /\ UNCHANGED notes
  /\ IngestUnchanged

\* file.text() resolves: the CSV branch to its end
IngestText ==
  /\ ingest # Null /\ ingest.pc = "text"
  /\ \E fault \in {0, 3} :
       /\ Departs(IF fault = 0 THEN 0 ELSE 1)
       /\ LET markdown == ingestMarkdown(ingestTitle, csvToMarkdownTable(parseCSV(ingest.file.data)))
              made     == createPage(notes[ingestPage])
          IN  IF fault = 3
                THEN /\ notes' = [notes EXCEPT ![ingestPage] = made]
                     /\ IngestRespond(IngestError(500, StorageError.message))
                ELSE /\ notes' = [notes EXCEPT ![ingestPage] = savePageContent(made, markdown)]
                     /\ IngestRespond(IngestOk(ingestParts))
  /\ IngestUnchanged

\* file.arrayBuffer() resolves: the image branch to its end, or pdfParse is called
IngestArrayBuffer ==
  /\ ingest # Null /\ ingest.pc = "arrayBuffer"
  /\ IF ingestExt \in IMAGE_EXTENSIONS_Ingest
       THEN \E fault \in {0, 3, 4} :
              /\ Departs(IF fault = 0 THEN 0 ELSE 1)
              /\ LET markdown == ingestMarkdown(ingestTitle,
                                   imageMarkdown(ingestTitle,
                                                 imageUrl(ingestParts, ingest.file.name)))
                     made     == createPage(notes[ingestPage])
                     saved    == savePageContent(made, markdown)
                 IN  CASE fault = 3 ->
                            /\ notes' = [notes EXCEPT ![ingestPage] = made]
                            /\ IngestRespond(IngestError(500, StorageError.message))
                       [] fault = 4 ->
                            /\ notes' = [notes EXCEPT ![ingestPage] = saved]
                            /\ IngestRespond(IngestError(500, StorageError.message))
                       [] OTHER ->
                            /\ notes' = [notes EXCEPT ![ingestPage] =
                                 saveImageToPage(saved, ingest.file.name, ingest.file.data)]
                            /\ IngestRespond(IngestOk(ingestParts))
       ELSE /\ ingest' = [ingest EXCEPT !.pc = "pdfParse"]
            /\ UNCHANGED <<notes, budget>>
  /\ IngestUnchanged

\* pdfParse(buffer) resolves: the PDF branch to its end
IngestPdfParse ==
  /\ ingest # Null /\ ingest.pc = "pdfParse"
  /\ \E fault \in {0, 3} :
       /\ Departs(IF fault = 0 THEN 0 ELSE 1)
       /\ LET markdown == ingestMarkdown(ingestTitle, ingest.file.data)
              made     == createPage(notes[ingestPage])
          IN  IF fault = 3
                THEN /\ notes' = [notes EXCEPT ![ingestPage] = made]
                     /\ IngestRespond(IngestError(500, StorageError.message))
                ELSE /\ notes' = [notes EXCEPT ![ingestPage] = savePageContent(made, markdown)]
                     /\ IngestRespond(IngestOk(ingestParts))
  /\ IngestUnchanged

InitIngest ==
  /\ ImportIdle
  /\ budget = MaxFaults
  /\ ingest \in [key : IngestKeys, authorization : IngestHeaders, file : IngestFiles,
                 slug : IngestSlugs, title : IngestTitles,
                 pc : {"received"}, response : {Null}]
  /\ csv = Null /\ preview = Null /\ editor = Null /\ tree = Null

IngestNext ==
  \/ IngestStart
  \/ IngestFormData
  \/ IngestReject
  \/ IngestText
  \/ IngestArrayBuffer
  \/ IngestPdfParse

IngestSpec == InitIngest /\ [][IngestNext]_vars

(***************************************************************************)
(* The CSV library alone.  A text is up to MaxCsvFields fields, each       *)
(* followed by a separator, the last one by an end; a field is empty,      *)
(* plain or quoted, and a quoted one may hold a comma, a doubled quote or  *)
(* a line break.                                                           *)
(***************************************************************************)
QuotedSample == <<"\"", "a", ",", "b", "\"", "\"", "c", "\"">>

CsvFields ==
  { << >>, <<"a">>, <<"\"", "\"">>, QuotedSample, <<"\"", "p", "\n", "q", "\"">> }
CsvSeps == { <<",">>, <<"\n">>, <<"\r", "\n">> }
CsvEnds == { << >>, <<"\n">>, <<"\r">> }

RECURSIVE CsvBodies(_)
CsvBodies(n) ==
  IF n = 0 THEN { << >> }
  ELSE IF n = 1 THEN CsvFields
  ELSE { b \o sep \o f : b \in CsvBodies(n - 1), sep \in CsvSeps, f \in CsvFields }

CsvTexts == { b \o e : b \in UNION { CsvBodies(n) : n \in 0..MaxCsvFields }, e \in CsvEnds }

InitCsv ==
  /\ ImportIdle
  /\ budget = 0
  /\ csv \in [text : CsvTexts, pc : {"text"}, rows : {<< >>}, table : {<< >>}]
  /\ ingest = Null /\ preview = Null /\ editor = Null /\ tree = Null

\* const rows = parseCSV(csvText)
CsvParse ==
  /\ csv # Null /\ csv.pc = "text"
  /\ csv' = [csv EXCEPT !.pc = "parsed", !.rows = parseCSV(csv.text)]
  /\ UNCHANGED <<importVars, notes, budget, ingest, preview, editor, tree>>

\* const table = csvToMarkdownTable(rows)
CsvRender ==
  /\ csv # Null /\ csv.pc = "parsed"
  /\ csv' = [csv EXCEPT !.pc = "rendered", !.table = csvToMarkdownTable(csv.rows)]
  /\ UNCHANGED <<importVars, notes, budget, ingest, preview, editor, tree>>

CsvNext == CsvParse \/ CsvRender

CsvSpec == InitCsv /\ [][CsvNext]_vars

(***************************************************************************)
(* The import page of the browser: the list of chosen files, the preview   *)
(* computed from it, and the click that sends the list to the import       *)
(* route, followed by the route's own grouping.                            *)
(***************************************************************************)
\* mutant: the preview matches an image by its base name or the "-" form only
computeGroupsNoUnderscore(fs) ==
  LET htmlFiles  == SelectSeq(fs, LAMBDA file : getExtension(file.name) \in HTML_EXTENSIONS)
      imageFiles == SelectSeq(fs, LAMBDA file : getExtension(file.name) \notin HTML_EXTENSIONS
                                                /\ getExtension(file.name) \in IMAGE_EXTENSIONS)
      isMatch(img, html) ==
        \/ getBaseName(img.name) = getBaseName(html.name)
        \/ startsWith(getBaseName(img.name), getBaseName(html.name) \o <<"-">>)
      matchedImages ==
        { imageFiles[m].name : m \in { k \in 1..Len(imageFiles) :
              \E h \in 1..Len(htmlFiles) : isMatch(imageFiles[k], htmlFiles[h]) } }
  IN  [groups    |-> [h \in 1..Len(htmlFiles) |->
                        [name       |-> getBaseName(htmlFiles[h].name),
                         slug       |-> replaceWhitespaceRuns(getBaseName(htmlFiles[h].name)),
                         htmlFile   |-> htmlFiles[h],
                         imageFiles |-> SelectSeq(imageFiles,
                                                  LAMBDA img : isMatch(img, htmlFiles[h]))]],
       unmatched |-> SelectSeq(imageFiles, LAMBDA img : img.name \notin matchedImages)]

\* the preview of the browser; its unmatched list holds the files, not their names
computeGroups(fs) ==
  LET htmlFiles  == SelectSeq(fs, LAMBDA file : getExtension(file.name) \in HTML_EXTENSIONS)
      imageFiles == SelectSeq(fs, LAMBDA file : getExtension(file.name) \notin HTML_EXTENSIONS
                                                /\ getExtension(file.name) \in IMAGE_EXTENSIONS)
      isMatch(img, html) ==
        \/ getBaseName(img.name) = getBaseName(html.name)
        \/ startsWith(getBaseName(img.name), getBaseName(html.name) \o <<"-">>)
        \/ startsWith(getBaseName(img.name), getBaseName(html.name) \o <<"_">>)
      matchedImages ==
        { imageFiles[m].name : m \in { k \in 1..Len(imageFiles) :
              \E h \in 1..Len(htmlFiles) : isMatch(imageFiles[k], htmlFiles[h]) } }
  IN  [groups    |-> [h \in 1..Len(htmlFiles) |->
                        [name       |-> getBaseName(htmlFiles[h].name),
                         slug       |-> replaceWhitespaceRuns(getBaseName(htmlFiles[h].name)),
                         htmlFile   |-> htmlFiles[h],
                         imageFiles |-> SelectSeq(imageFiles,
                                                  LAMBDA img : isMatch(img, htmlFiles[h]))]],
       unmatched |-> SelectSeq(imageFiles, LAMBDA img : img.name \notin matchedImages)]

\* addFiles: the files of a supported extension whose name is not yet in the list
addFiles(prev, newFiles) ==
  LET valid   == SelectSeq(newFiles, LAMBDA f : getExtension(f.name) \in HTML_EXTENSIONS
                                               \/ getExtension(f.name) \in IMAGE_EXTENSIONS)
      deduped == SelectSeq(valid, LAMBDA f : \A k \in 1..Len(prev) : prev[k].name # f.name)
  IN  prev \o deduped

\* removeFile
removeFile(prev, index) ==
  SubSeq(prev, 1, index) \o SubSeq(prev, index + 2, Len(prev))

\* what is dropped on the page at once: one file, or two files of one name
Drops ==
  { <<[name |-> nm, data |-> << >>]>> : nm \in GroupPool }
    \cup { <<[name |-> nm, data |-> << >>], [name |-> nm, data |-> << >>]>> : nm \in GroupPool }

PreviewUnchanged == UNCHANGED <<ingest, csv, editor, tree>>

InitPreview ==
  /\ files = << >>
  /\ apiKey = TRUE
  /\ budget = 0
  /\ sink = "ok"
  /\ InitRequest
  /\ preview = [files |-> << >>, importing |-> FALSE]
  /\ ingest = Null /\ csv = Null /\ editor = Null /\ tree = Null

\* handleDrop, handleFileSelect
PreviewAdd ==
  /\ preview # Null /\ ~preview.importing
  /\ \E newFiles \in Drops :
       /\ Len(addFiles(preview.files, newFiles)) <= MaxGroupFiles
       /\ preview' = [preview EXCEPT !.files = addFiles(preview.files, newFiles)]
  /\ UNCHANGED <<importVars, notes, budget>>
  /\ PreviewUnchanged

\* the remove button of a file of the list
PreviewRemove ==
  /\ preview # Null /\ ~preview.importing
  /\ \E index \in 0..(Len(preview.files) - 1) :
       preview' = [preview EXCEPT !.files = removeFile(preview.files, index)]
  /\ UNCHANGED <<importVars, notes, budget>>
  /\ PreviewUnchanged

\* handleImport up to its fetch: the request carries the files of the list
PreviewImport ==
  /\ preview # Null /\ ~preview.importing
  /\ Len(computeGroups(preview.files).groups) # 0
  /\ preview' = [preview EXCEPT !.importing = TRUE]
  /\ files' = preview.files
  /\ UNCHANGED <<apiKey, post, response, groups, unmatched, grouperRuns, sink,
                 schedVars, unitVars, writer, notes, budget>>
  /\ PreviewUnchanged

\* the import route groups the files of the request
PreviewServerGroups ==
  /\ preview # Null /\ preview.importing
  /\ GroupFilesCall

PreviewNext ==
  \/ PreviewAdd
  \/ PreviewRemove
  \/ PreviewImport
  \/ PreviewServerGroups

PreviewSpec == InitPreview /\ [][PreviewNext]_vars

(***************************************************************************)
(* The page editor of the browser and the notes route.  The editor holds   *)
(* the typed content, the save timer (the content its callback will send,  *)
(* NoTimer when none is pending), the saved timer and the save status; a   *)
(* save request is in flight from the firing of the save timer to the      *)
(* continuation of its fetch, and the route handles the requests in flight *)
(* in any order.                                                           *)
(***************************************************************************)
NoTimer == <<"null">>

EditedPage == <<"A">>

Keys == {"a", "b"}

\* autoSave up to its return: the timers are cleared, a save timer is set
autoSave(ed, newContent) ==
  [ed EXCEPT !.content = newContent,
             !.saveTimer = newContent,
             !.savedTimer = FALSE,
             !.saveStatus = "saving"]

\* POST of the notes route for a body with slug and content, after req.json()
notesPost(stored, content) == savePageContent(stored, content)

EditorUnchanged ==
  UNCHANGED <<importVars, ingest, csv, preview, tree>>

InitEditor ==
  /\ ImportIdle
  /\ budget = MaxFaults
  /\ editor = [content |-> << >>, saveTimer |-> NoTimer, savedTimer |-> FALSE,
               saveStatus |-> "idle", edits |-> 0, sent |-> 0, requests |-> {}]
  /\ ingest = Null /\ csv = Null /\ preview = Null /\ tree = Null

\* onChange of the text area: autoSave(newContent)
EditorType ==
  /\ editor # Null /\ editor.edits < MaxEdits
  /\ \E key \in Keys :
       editor' = [autoSave(editor, Append(editor.content, key)) EXCEPT !.edits = @ + 1]
  /\ UNCHANGED <<notes, budget>>
  /\ EditorUnchanged

\* the save timer fires, 500 ms after the last edit: fetch is called
EditorSaveTimer ==
  /\ editor # Null /\ editor.saveTimer # NoTimer
  /\ editor' = [editor EXCEPT
                  !.saveTimer = NoTimer,
                  !.sent = @ + 1,
                  !.requests = @ \cup { [id |-> editor.sent + 1, content |-> editor.saveTimer,
                                         state |-> "sent"] }]
  /\ UNCHANGED <<notes, budget>>
  /\ EditorUnchanged

\* the notes route handles a request in flight: the content is stored
NotesPost ==
  /\ editor # Null
  /\ \E r \in editor.requests :
       /\ r.state = "sent"
       /\ notes' = [notes EXCEPT ![EditedPage] = notesPost(@, r.content)]
       /\ editor' = [editor EXCEPT !.requests = (@ \ {r}) \cup { [r EXCEPT !.state = "ok"] }]
  /\ UNCHANGED budget
  /\ EditorUnchanged

\* the request fails: the route throws, or the network does
NotesPostFails ==
  /\ editor # Null
  /\ Departs(1)
  /\ \E r \in editor.requests :
       /\ r.state = "sent"
       /\ editor' = [editor EXCEPT !.requests = (@ \ {r}) \cup { [r EXCEPT !.state = "failed"] }]
  /\ UNCHANGED notes
  /\ EditorUnchanged

\* the continuation of fetch in the callback of the save timer
EditorSaveDone ==
  /\ editor # Null
  /\ \E r \in editor.requests :
       /\ r.state \in {"ok", "failed"}
       /\ editor' = [editor EXCEPT
                       !.requests = @ \ {r},
                       !.saveStatus = IF r.state = "ok" THEN "saved" ELSE "error",
                       !.savedTimer = IF r.state = "ok" THEN TRUE ELSE @]
  /\ UNCHANGED <<notes, budget>>
  /\ EditorUnchanged

\* the saved timer fires, 2 s after a save
EditorSavedTimer ==
  /\ editor # Null /\ editor.savedTimer
  /\ editor' = [editor EXCEPT !.savedTimer = FALSE, !.saveStatus = "idle"]
  /\ UNCHANGED <<notes, budget>>
  /\ EditorUnchanged

EditorNext ==
  \/ EditorType
  \/ EditorSaveTimer
  \/ NotesPost
  \/ NotesPostFails
  \/ EditorSaveDone
  \/ EditorSavedTimer

EditorSpec == InitEditor /\ [][EditorNext]_vars

(***************************************************************************)
(* The page tree and movePage.  A page is a directory below the notes      *)
(* directory, named by its slug: the list of the names on the way to it,   *)
(* each name a sequence of characters.  The tree is the set of the slugs   *)
(* of its pages; the notes directory itself, the empty slug, always        *)
(* exists.                                                                 *)
(***************************************************************************)
PageNames == { <<"a">>, <<"a", "b">> }

RECURSIVE SlugsOfDepth(_)
SlugsOfDepth(n) ==
  IF n = 0 THEN { << >> }
  ELSE { Append(sl, nm) : sl \in SlugsOfDepth(n - 1), nm \in PageNames }

Slugs == UNION { SlugsOfDepth(n) : n \in 0..MaxDepth }

\* the trees: with a page, every directory on the way to it
Trees ==
  { t \in SUBSET (Slugs \ { << >> }) :
      \A sl \in t : \A n \in 1..Len(sl) : SubSeq(sl, 1, n) \in t }

\* fs.existsSync(path.join(NOTES_DIR, ...slug))
existsSync(pages, slug) == slug = << >> \/ slug \in pages

\* fs.mkdirSync(path.join(NOTES_DIR, ...slug), { recursive: true })
mkdirSync(pages, slug) == pages \cup { SubSeq(slug, 1, n) : n \in 1..Len(slug) }

\* whether the page is the directory `slug` or lies below it
below(pg, slug) == Len(pg) >= Len(slug) /\ SubSeq(pg, 1, Len(slug)) = slug

\* fs.renameSync(oldPath, newPath) of a directory: it moves with all that is in it
renameSync(pages, oldSlug, newSlug) ==
  { pg \in pages : ~below(pg, oldSlug) }
    \cup { newSlug \o SubSeq(pg, Len(oldSlug) + 1, Len(pg)) :
             pg \in { q \in pages : below(q, oldSlug) } }

MoveError(message) == [isError |-> TRUE, message |-> message]

\* mutant: a move below the page itself is not refused
movePageNoSubtreeTest(pages, oldSlug, newParentSlug) ==
  LET pageName == oldSlug[Len(oldSlug)]
      newSlug  == Append(newParentSlug, pageName)
  IN  IF ~existsSync(pages, oldSlug)
        THEN [pages |-> pages, thrown |-> MoveError(<<"Source page does not exist">>)]
      ELSE IF existsSync(pages, newSlug)
        THEN [pages |-> pages,
              thrown |-> MoveError(<<"A page with that name already exists at the destination">>)]
      ELSE [pages  |-> renameSync(IF existsSync(pages, newParentSlug) THEN pages
                                  ELSE mkdirSync(pages, newParentSlug),
                                  oldSlug, newSlug),
            thrown |-> Null,
            value  |-> newSlug]

\* movePage of a slug of at least one name: the tree after it, and what it
\* throws or returns
movePage(pages, oldSlug, newParentSlug) ==
  LET pageName     == oldSlug[Len(oldSlug)]
      newSlug      == Append(newParentSlug, pageName)
      oldPrefix    == join(oldSlug, <<"/">>) \o <<"/">>
      newParentStr == join(newParentSlug, <<"/">>)
  IN  IF ~existsSync(pages, oldSlug)
        THEN [pages |-> pages, thrown |-> MoveError(<<"Source page does not exist">>)]
      ELSE IF newParentStr = join(oldSlug, <<"/">>) \/ startsWith(newParentStr, oldPrefix)
        THEN [pages |-> pages,
              thrown |-> MoveError(<<"Cannot move a page into its own subtree">>)]
      ELSE IF existsSync(pages, newSlug)
        THEN [pages |-> pages,
              thrown |-> MoveError(<<"A page with that name already exists at the destination">>)]
      ELSE [pages  |-> renameSync(IF existsSync(pages, newParentSlug) THEN pages
                                  ELSE mkdirSync(pages, newParentSlug),
                                  oldSlug, newSlug),
            thrown |-> Null,
            value  |-> newSlug]

TreeUnchanged == UNCHANGED <<importVars, notes, budget, ingest, csv, preview, editor>>

\* a PATCH request with slug and newParent, on any tree
InitTree ==
  /\ ImportIdle
  /\ budget = 0
  /\ tree \in [pages : Trees,
               slug : { join(sl, <<"/">>) : sl \in Slugs },
               newParent : { join(sl, <<"/">>) : sl \in Slugs },
               before : {{}}, pc : {"received"}, response : {Null}]
  /\ ingest = Null /\ csv = Null /\ preview = Null /\ editor = Null

\* PATCH after req.json(): the move branch
PatchMove ==
  /\ tree # Null /\ tree.pc = "received"
  /\ IF tree.slug = << >>
       THEN tree' = [tree EXCEPT !.pc = "responded", !.before = tree.pages,
                                 !.response = [status |-> 400, error |-> <<"Missing slug">>]]
       ELSE \E moved \in { movePage(tree.pages, splitSlug(tree.slug, << >>),
                                    splitSlug(tree.newParent, << >>)) } :
              tree' = [tree EXCEPT
                         !.pc = "responded",
                         !.before = tree.pages,
                         !.pages = moved.pages,
                         !.response =
                           IF moved.thrown # Null
                             THEN [status |-> 400, error |-> moved.thrown.message]
                             ELSE [status |-> 200, newSlug |-> join(moved.value, <<"/">>)]]
  /\ TreeUnchanged

MoveSpec == InitTree /\ [][PatchMove]_vars

(***************************************************************************)
(* Properties.                                                             *)
(***************************************************************************)
InFlight == { i \in Tasks : upc[i] \in Running }
Hung == { i \in Tasks : upc[i] = "hung" }
Reported == post = "responded" /\ response.status = 200

\* C1: at every moment the tasks started and not yet completed number at most
\* the concurrency limit, 3 in the import route.
C1_AtMostConcurrencyInFlight ==
  /\ Cardinality(InFlight) <= CONCURRENCY
  /\ Cardinality(InFlight) <= 3

C1_Witness ==
  /\ Cardinality(InFlight) = CONCURRENCY
  /\ \E i \in Tasks : upc[i] = "idle"

\* C2: every index below the cursor has been claimed exactly once and no other
\* has been claimed, no two workers await the same index, the report is made
\* only when every task was claimed once, has settled and has its result stored,
\* and, unless a started task never completes, the scheduler returns.
C2_EachIndexClaimedOnce ==
  /\ [](\A i \in Tasks : /\ claims[i] = (IF i < nextIndex THEN 1 ELSE 0)
                         /\ (upc[i] = "idle") = (claims[i] = 0))
  /\ [](\A k1, k2 \in DOMAIN workers :
          (k1 # k2 /\ workers[k1].state = "awaiting" /\ workers[k2].state = "awaiting")
            => workers[k1].i # workers[k2].i)
  /\ [](Reported => /\ nextIndex = N
                    /\ \A i \in Tasks : /\ claims[i] = 1
                                        /\ upc[i] = "settled"
                                        /\ results[i] # Null)
  /\ <>(post = "responded" \/ Hung # {})

C2_Witness == Reported /\ N > CONCURRENCY

\* C3: in the report, position i holds what task i resolved with, whatever
\* the order in which the tasks completed.
C3_ResultAtOwnIndex ==
  Reported =>
    /\ DOMAIN response.body.results = Tasks
    /\ \A i \in Tasks : settled[i] # Null /\ response.body.results[i] = settled[i]

\* tasks 0 and 2 write the same page: its content is that of task 0, so task 2
\* completed before task 0
C3_Witness ==
  /\ Reported
  /\ N >= 3
  /\ results[0].success /\ results[2].success
  /\ group(0).slug = group(2).slug
  /\ notes[group(0).slug].content = markdownOf(htmlText(0))

\* C4: the report of an accepted request has exactly one result per unit made
\* by the grouper, result i with the name and slug of unit i.
C4_OneResultPerUnit ==
  Reported =>
    /\ groups = groupFiles(files).groups
    /\ DOMAIN response.body.results = 0..(Len(groups) - 1)
    /\ \A i \in 0..(Len(groups) - 1) :
         /\ response.body.results[i] # Null
         /\ response.body.results[i].name = groups[i + 1].name
         /\ response.body.results[i].slug = groups[i + 1].slug

C4_Witness ==
  /\ Reported
  /\ \E i, j \in Tasks :
       /\ results[i].success /\ ~results[j].success
       /\ results[j].name # results[j].slug

\* C5: a unit whose processing threw has settled as a failure carrying the
\* error's message; the report is then still a report (status 200) with a
\* result for every unit, each unit claimed once, and a unit that did not throw
\* has its success.
C5_FailureIsolated ==
  /\ \A k \in Tasks :
       thrown[k] # Null =>
         /\ upc[k] = "settled"
         /\ settled[k] = [name |-> group(k).name, slug |-> group(k).slug,
                          success |-> FALSE, error |-> thrown[k].message]
  /\ (post = "responded" /\ \E k \in Tasks : thrown[k] # Null) =>
       /\ response.status = 200
       /\ \A i \in Tasks :
            /\ claims[i] = 1
            /\ settled[i] # Null
            /\ response.body.results[i] = settled[i]
            /\ thrown[i] = Null =>
                 settled[i] = [name |-> group(i).name, slug |-> group(i).slug,
                               success |-> TRUE]

C5_Witness ==
  /\ Reported
  /\ N = 3
  /\ thrown[1] = StorageError
  /\ results[0].success /\ results[2].success


(***************************************************************************)
(* Properties of the retry controller.                                     *)
(***************************************************************************)
\* k invocations in a row that ended with a rate-limit error
RateRun(k) == [n \in 1..k |-> "rate"]

C8_LinearBackoff ==
  \A i \in Tasks :
    /\ \A n \in 1..Len(waits[i]) :
         /\ waits[i][n] = RETRY_BASE_DELAY_MS * n
         /\ n <= Len(calls[i])
         /\ calls[i][n] = "rate"
    /\ Len(waits[i]) <= 3
    /\ waits[i] = SubSeq(<<15000, 30000, 45000>>, 1, Len(waits[i]))
    /\ IF upc[i] = "sleep" THEN Len(waits[i]) = inv[i]
       ELSE IF inv[i] = 0 THEN waits[i] = << >>
       ELSE Len(waits[i]) = inv[i] - 1

C8_Witness ==
  \E i \in Tasks : waits[i] = <<15000, 30000, 45000>> /\ upc[i] = "create"

\* C9: the errors the model raises are recognised as rate limiting exactly when
\* they are rate-limit errors; an attempt that ends with another error settles
\* the unit with that error at once: no further invocation, no wait.
C9_OtherErrorPropagates ==
  /\ \A err \in ModelErrors : isRateLimit(err) = (err \in RateLimitErrors)
  /\ \A i \in Tasks :
       (calls[i] # << >> /\ calls[i][Len(calls[i])] = "other") =>
         /\ upc[i] = "settled"
         /\ thrown[i] \in OtherErrors
         /\ settled[i] = [name |-> group(i).name, slug |-> group(i).slug,
                          success |-> FALSE, error |-> thrown[i].message]
         /\ inv[i] = Len(calls[i])
         /\ Len(waits[i]) = Len(calls[i]) - 1

C9_Witness ==
  \E i \in Tasks :
    /\ calls[i] = <<"rate", "other">>
    /\ attempt[i] < MAX_RETRIES
    /\ results[i] # Null

\* C10: a unit in a backoff wait or in a model call is awaited by exactly one
\* worker; every settled unit's result is decided by what happened to that
\* unit alone; and with at most one unit whose model call never returns, a
\* moment comes when every other unit has been started, has completed and has
\* its result stored.
C10_StalledUnitHoldsOneSlot ==
  /\ [](\A i \in Tasks :
          upc[i] \in {"sleep", "create", "hung"} =>
            Cardinality({ k \in DOMAIN workers :
                            workers[k].state = "awaiting" /\ workers[k].i = i }) = 1)
  /\ [](\A i \in Tasks :
          settled[i] # Null =>
            settled[i] = (IF thrown[i] = Null
                            THEN [name |-> group(i).name, slug |-> group(i).slug,
                                  success |-> TRUE]
                            ELSE [name |-> group(i).name, slug |-> group(i).slug,
                                  success |-> FALSE, error |-> thrown[i].message]))
  /\ <>(\/ post = "responded"
        \/ /\ post = "running"
           /\ Cardinality(Hung) > 1
        \/ /\ post = "running"
           /\ \A i \in Tasks : upc[i] = "hung" \/ results[i] # Null)

C10_Witness ==
  /\ CONCURRENCY >= 2
  /\ N > CONCURRENCY
  /\ \E i \in Tasks :
       /\ upc[i] = "hung"
       /\ \A j \in Tasks \ {i} : results[j] # Null


(***************************************************************************)
(* Properties of the orchestrator's input errors.                          *)
(***************************************************************************)
\* POST answered from its catch: the form data could not be read
FormFailed == post = "responded" /\ response = postCatch(FormError)

\* the handler saw the request's files and answered
Answered == post = "responded" /\ ~FormFailed

NothingStarted ==
  /\ grouperRuns = 0
  /\ groups = << >> /\ unmatched = << >>
  /\ workers = << >> /\ nextIndex = 0
  /\ upc = << >> /\ inv = << >>
  /\ \A p \in PagePaths : notes[p] = NoPage /\ writer[p] = -1

\* C11 as stated: a request without files, and a request the credential is
\* missing for, are both answered with a client error (status 4xx).
C11_InputErrorsAreClientErrors ==
  (Answered /\ (Len(files) = 0 \/ ~apiKey)) => response.status \in 400..499

\* C11 as amended: a request without files is answered with the client error
\* 400 "No files provided", whether or not the credential is configured; a
\* request with files for which the credential is missing is answered with the
\* server error 500 "ANTHROPIC_API_KEY not configured".
C11_InputErrorStatus ==
  /\ (Answered /\ Len(files) = 0) =>
       /\ response.status = 400
       /\ response.status \in 400..499
       /\ response.body = [error |-> <<"No files provided">>]
  /\ (Answered /\ Len(files) > 0 /\ ~apiKey) =>
       /\ response.status = 500
       /\ response.status \notin 400..499
       /\ response.body = [error |-> <<"ANTHROPIC_API_KEY not configured">>]

C11_Witness ==
  /\ Answered
  /\ Len(files) > 0 /\ ~apiKey
  /\ response.status = 500

\* C12: when the request is answered for an input error (no files, or the
\* credential missing), the answer is an error and nothing was started: the
\* grouper was not called, there are no units, no workers, no model invocation,
\* and no page, content or asset was written.
C12_InputErrorStartsNothing ==
  (Answered /\ (Len(files) = 0 \/ ~apiKey)) =>
    /\ response.status # 200
    /\ DOMAIN response.body = {"error"}
    /\ NothingStarted

C12_Witness ==
  /\ Answered
  /\ ~apiKey
  /\ Len(htmlFilesOf(files)) >= 2
  /\ response.status # 200
  /\ grouperRuns = 0

\* C13 as stated: every answer is either an error for a request without files
\* or without credential, given before anything was started, or the report
\* of the units.
C13_OnlyInputErrorsFailTheBatch ==
  post = "responded" =>
    \/ /\ Len(files) = 0 \/ ~apiKey
       /\ response.status # 200
       /\ DOMAIN response.body = {"error"}
       /\ NothingStarted
    \/ /\ Len(files) > 0 /\ apiKey
       /\ response.status = 200
       /\ DOMAIN response.body = {"results", "unmatched"}

\* C13 as amended: every answer is an error for a request without files or
\* without credential, or the error answer (500, the error's message) of the
\* handler's catch for an exception thrown before the units start (the form
\* data cannot be read), each given before anything was started; or else it is
\* the report, with a result for every unit.
C13_BatchErrorsPrecedeUnits ==
  post = "responded" =>
    \/ /\ response = postCatch(FormError)
       /\ response.status = 500
       /\ response.body = [error |-> FormError.message]
       /\ NothingStarted
    \/ /\ Len(files) = 0 \/ ~apiKey
       /\ response.status \in {400, 500}
       /\ DOMAIN response.body = {"error"}
       /\ NothingStarted
    \/ /\ Len(files) > 0 /\ apiKey
       /\ grouperRuns = 1
       /\ response.status = 200
       /\ DOMAIN response.body = {"results", "unmatched"}
       /\ DOMAIN response.body.results = Tasks
       /\ \A i \in Tasks : response.body.results[i] # Null

C13_Witness ==
  /\ FormFailed
  /\ Len(files) > 0 /\ apiKey


(***************************************************************************)
(* Properties of processGroup.                                             *)
(***************************************************************************)
\* the units without a document
NoDocument == { i \in Tasks : group(i).htmlFile = Null }

\* whether a unit other than a unit without document writes the page of slug
OnlyNoDocumentAt(slug) == \A j \in Tasks : group(j).slug = slug => j \in NoDocument

Returned(i) == calls[i] # << >> /\ calls[i][Len(calls[i])] = "ok"

\* C15: in every state of the page store, after any of the file-system calls
\* of any unit's storage phase and under any interleaving of the units, a page
\* that holds an asset has its directory and its content document, and that
\* content is the markdown of a unit of that slug whose content write was made.
C15_AssetsImplyContent ==
  \A p \in PagePaths :
    notes[p].assets # {} =>
      /\ notes[p].dir
      /\ notes[p].hasContent
      /\ \E i \in Tasks :
           /\ group(i).slug = p
           /\ Returned(i) /\ Len(got[i]) > 0
           /\ wroteContent(faultAt[i])
           /\ notes[p].content = markdownFrom(got[i])

\* a page with its content and not yet its assets: the storage phase of a unit
\* with images has written the content and stopped at its first asset
C15_Witness ==
  \E i \in Tasks :
    /\ Len(imageBuffers(i)) > 0
    /\ faultAt[i] = 4
    /\ notes[group(i).slug].hasContent
    /\ notes[group(i).slug].content = markdownOf(htmlText(i))
    /\ notes[group(i).slug].assets = {}


\* the assets of unit i, as the store holds them
AssetOf(i, m) == [name |-> imageBuffers(i)[m].name, data |-> imageBuffers(i)[m].data]

\* C16: in the step in which the write of the j-th asset of a unit throws, the
\* unit settles as a failure with the error's message, and the page of its slug
\* has its directory, the content written by the unit and the first j-1 assets,
\* while the j-th and the later assets are not written (the page has of them
\* what it had before); and no step ever removes a directory, a content
\* document or an asset from the store.
C16_PartialWritesRemain ==
  [][/\ \A i \in Tasks : \A j \in 1..Len(imageBuffers(i)) :
          (faultAt[i] = 0 /\ upc[i] = "create" /\ faultAt'[i] = 3 + j) =>
            /\ upc'[i] = "settled"
            /\ settled'[i] = [name |-> group(i).name, slug |-> group(i).slug,
                              success |-> FALSE, error |-> StorageError.message]
            /\ notes'[group(i).slug].dir
            /\ notes'[group(i).slug].hasContent
            /\ notes'[group(i).slug].content = markdownFrom(got'[i])
            /\ \A m \in 1..(j - 1) : AssetOf(i, m) \in notes'[group(i).slug].assets
            /\ \A m \in j..Len(imageBuffers(i)) :
                 (AssetOf(i, m) \in notes'[group(i).slug].assets)
                   = (AssetOf(i, m) \in notes[group(i).slug].assets)
            /\ \A q \in PagePaths \ {group(i).slug} : notes'[q] = notes[q]
     /\ \A p \in PagePaths :
          /\ notes[p].dir => notes'[p].dir
          /\ notes[p].hasContent => notes'[p].hasContent
          /\ { a.name : a \in notes[p].assets } \subseteq { a.name : a \in notes'[p].assets }
    ]_vars

\* the second asset of a unit could not be written: the unit has failed, its
\* page has the content and the first asset only
C16_Witness ==
  \E i \in Tasks :
    /\ Len(imageBuffers(i)) >= 2
    /\ faultAt[i] = 5
    /\ results[i] # Null /\ ~results[i].success
    /\ notes[group(i).slug].content = markdownOf(htmlText(i))
    /\ notes[group(i).slug].assets = { AssetOf(i, 1) }


ErrorIffFailure(r) ==
  /\ {"name", "slug", "success"} \subseteq DOMAIN r
  /\ ("error" \in DOMAIN r) = (r.success = FALSE)

\* C18: every result a task resolved with, every result stored by a worker and
\* every result of the report has an error exactly when its success is false.
C18_ErrorIffNotSuccess ==
  /\ \A i \in Tasks :
       /\ settled[i] # Null => ErrorIffFailure(settled[i])
       /\ results[i] # Null => ErrorIffFailure(results[i])
  /\ Reported =>
       \A i \in DOMAIN response.body.results : ErrorIffFailure(response.body.results[i])

\* a report with a unit without document, failed, and a unit that succeeded
C18_Witness ==
  /\ Reported
  /\ N = 2
  /\ response.body.results[0].success = FALSE
  /\ "error" \in DOMAIN response.body.results[0]
  /\ response.body.results[1].success = TRUE
  /\ "error" \notin DOMAIN response.body.results[1]

(***************************************************************************)
(* Properties of units that share a slug.                                  *)
(***************************************************************************)
\* C19: the content of a page is the markdown of the unit that last made its
\* content write there; in the report, two units with the same slug have both
\* been run once, each has its own result, and the only failures are those of
\* a thrown error of the unit itself (a read, the model, the response, a
\* storage write): no unit is dropped, rejected or failed for the collision.
C19_SameSlugLastWriterWins ==
  /\ \A p \in PagePaths :
       writer[p] # -1 =>
         /\ writer[p] \in Tasks
         /\ group(writer[p]).slug = p
         /\ notes[p].hasContent
         /\ notes[p].content = markdownFrom(got[writer[p]])
  /\ Reported =>
       \A i, j \in Tasks :
         (i # j /\ group(i).slug = group(j).slug) =>
           /\ claims[i] = 1 /\ claims[j] = 1
           /\ response.body.results[i] = settled[i]
           /\ response.body.results[j] = settled[j]
           /\ settled[i].success = (thrown[i] = Null)
           /\ thrown[i] # Null =>
                /\ thrown[i] \in ModelErrors \cup {ReadError, TypeError, StorageError}
                /\ settled[i].error = thrown[i].message
           /\ (thrown[i] = Null /\ thrown[j] = Null) =>
                /\ writer[group(i).slug] \in {i, j}
                /\ notes[group(i).slug].content \in
                     { markdownFrom(got[i]), markdownFrom(got[j]) }

\* units 0 and 2 have the same slug and different documents, both succeeded,
\* unit 0 wrote last and the page holds its markdown
C19_Witness ==
  /\ Reported
  /\ N >= 3
  /\ group(0).slug = group(2).slug
  /\ htmlText(0) # htmlText(2)
  /\ response.body.results[0].success /\ response.body.results[2].success
  /\ writer[group(0).slug] = 0
  /\ notes[group(0).slug].content = markdownOf(htmlText(0))
  /\ notes[group(0).slug].content # markdownOf(htmlText(2))

(***************************************************************************)
(* Properties of the grouper.                                              *)
(***************************************************************************)
\* the uploaded files that are assets: an image extension, not a document
IsAsset(f) ==
  getExtension(f.name) \in IMAGE_EXTENSIONS /\ getExtension(f.name) \notin HTML_EXTENSIONS

\* the rule of the claim, on base names ab of an asset and db of a document
SameOrPrefixed(ab, db) ==
  \/ ab = db
  \/ /\ Len(ab) > Len(db)
     /\ \A c \in 1..Len(db) : ab[c] = db[c]
     /\ ab[Len(db) + 1] \in {"-", "_"}

\* how many times file f occurs in the list l
Occurrences(l, f) == Cardinality({ x \in 1..Len(l) : l[x] = f })

\* C20: groupFiles makes one unit per document, in upload order; an uploaded
\* asset is in the unit of a document exactly when its base name is the
\* document's base name or starts with it followed by "-" or "_", letter case
\* included, and then in the unit of every such document; a unit holds
\* nothing but such assets.
C20_AssetJoinsEveryMatchingUnit ==
  post = "grouped" =>
    /\ Len(groups) = Len(htmlFilesOf(files))
    /\ \A k \in 1..Len(groups) :
         /\ groups[k].htmlFile = htmlFilesOf(files)[k]
         /\ groups[k].name = getBaseName(groups[k].htmlFile.name)
         /\ \A m \in 1..Len(files) :
              IsAsset(files[m]) =>
                Occurrences(groups[k].imageFiles, files[m]) =
                  (IF SameOrPrefixed(getBaseName(files[m].name), groups[k].name)
                     THEN Occurrences(files, files[m]) ELSE 0)
         /\ \A x \in 1..Len(groups[k].imageFiles) :
              \E m \in 1..Len(files) :
                IsAsset(files[m]) /\ files[m] = groups[k].imageFiles[x]

\* an asset that matches two documents is in the unit of both
C20_Witness ==
  /\ post = "grouped"
  /\ Len(groups) = 2
  /\ groups[1].name # groups[2].name
  /\ Len(groups[1].imageFiles) = 1
  /\ groups[1].imageFiles = groups[2].imageFiles

\* the uploaded files that are primary documents
IsDocument(f) == getExtension(f.name) \in HTML_EXTENSIONS

\* whether file f is among the assets of some unit
InSomeUnit(f) ==
  \E k \in 1..Len(groups) : \E x \in 1..Len(groups[k].imageFiles) : groups[k].imageFiles[x] = f

\* whether the name nm is in the unmatched list
IsUnmatched(nm) == \E x \in 1..Len(unmatched) : unmatched[x] = nm

\* C21: after grouping, the name of an uploaded asset is in the unmatched list
\* exactly when the asset is in no unit: never in both, never in neither.
C21_UnmatchedIffInNoUnit ==
  post = "grouped" =>
    \A m \in 1..Len(files) :
      IsAsset(files[m]) => (IsUnmatched(files[m].name) <=> ~InSomeUnit(files[m]))

\* an upload of which one asset joined a unit and another joined none
C21_Witness ==
  /\ post = "grouped"
  /\ \E m, o \in 1..Len(files) :
       /\ IsAsset(files[m]) /\ InSomeUnit(files[m]) /\ ~IsUnmatched(files[m].name)
       /\ IsAsset(files[o]) /\ ~InSomeUnit(files[o]) /\ IsUnmatched(files[o].name)

\* the names of the files of l, in order
NamesOf(l) == [k \in 1..Len(l) |-> l[k].name]

\* C22: groupFiles makes exactly one unit per document, in the upload order of
\* the documents; the unmatched list keeps the upload order of the assets; a
\* file that is neither document nor asset is no unit's document, no unit's
\* asset and not in the unmatched list.
C22_UnitsAndUnmatchedInUploadOrder ==
  post = "grouped" =>
    /\ [k \in 1..Len(groups) |-> groups[k].htmlFile] =
         SelectSeq(files, LAMBDA f : IsDocument(f))
    /\ unmatched =
         NamesOf(SelectSeq(files, LAMBDA f : IsAsset(f) /\ IsUnmatched(f.name)))
    /\ \A m \in 1..Len(files) :
         (~IsDocument(files[m]) /\ ~IsAsset(files[m])) =>
           /\ ~InSomeUnit(files[m])
           /\ ~IsUnmatched(files[m].name)
           /\ \A k \in 1..Len(groups) : groups[k].htmlFile # files[m]

\* two documents, an asset of neither and a file that is neither document nor
\* asset, whose base name is a document's
C22_Witness ==
  /\ post = "grouped"
  /\ Len(groups) = 2
  /\ groups[1].name # groups[2].name
  /\ Len(unmatched) = 1
  /\ \E m \in 1..Len(files) :
       /\ ~IsDocument(files[m]) /\ ~IsAsset(files[m])
       /\ getBaseName(files[m].name) = groups[2].name

(***************************************************************************)
(* Properties of uploads at the edges: no document, no asset, fewer units  *)
(* than workers.                                                           *)
(***************************************************************************)
NoDocuments == \A m \in 1..Len(files) : ~IsDocument(files[m])
AssetNames == NamesOf(SelectSeq(files, LAMBDA f : IsAsset(f)))

\* C23: an accepted upload without any document makes no unit and lists every
\* asset as unmatched; its answer is the report with an empty result list, no
\* worker was started, the model was not invoked and nothing was written to
\* the store.  A unit whose document has no matching asset reads no image,
\* invokes the model and, unless one of its steps throws, succeeds with its
\* content written.
C23_NoDocumentsEmptyReport ==
  /\ (Answered /\ Len(files) > 0 /\ apiKey /\ NoDocuments) =>
       /\ response.status = 200
       /\ response.body.results = << >>
       /\ response.body.unmatched = AssetNames
       /\ N = 0 /\ workers = << >> /\ inv = << >>
       /\ \A p \in PagePaths : notes[p] = NoPage /\ writer[p] = -1
  /\ \A i \in Tasks :
       (group(i).htmlFile # Null /\ Len(group(i).imageFiles) = 0) =>
         /\ upc[i] # "image" /\ nread[i] = 0
         /\ (upc[i] = "settled" /\ thrown[i] = Null) =>
              /\ settled[i] = Success(group(i))
              /\ inv[i] >= 1
              /\ notes[group(i).slug].hasContent
              /\ notes[group(i).slug].assets = {}

\* an upload of two images and no document was answered with the empty report
C23_Witness ==
  /\ Answered
  /\ NoDocuments
  /\ Len(files) = 2
  /\ response.status = 200
  /\ response.body.results = << >>
  /\ Len(response.body.unmatched) = 2

\* C24: runWithConcurrency starts min(C, N) workers: N of them when the limit
\* C exceeds the number N of tasks; with no task it starts none, its result
\* list is empty and it returns at once.
C24_WorkersAreMinOfLimitAndTasks ==
  (post = "running" \/ Reported) =>
    /\ Len(workers) = (IF CONCURRENCY > N THEN N ELSE CONCURRENCY)
    /\ N = 0 =>
         /\ workers = << >>
         /\ results = << >>
         /\ post = "running" => ENABLED PostRespond
         /\ Reported => response.body.results = << >>

\* two tasks under a limit of three: two workers ran them
C24_Witness ==
  /\ Reported
  /\ N = 2 /\ CONCURRENCY > N
  /\ Len(workers) = 2
  /\ \A i \in Tasks : response.body.results[i] # Null

(***************************************************************************)
(* Properties of the sniffer and of the media type of an attached image.   *)
(***************************************************************************)
\* the images of task i that were read and sniffed
Sniffs(i) == 1..Len(sniffed[i])
bufferOf(i, k) == group(i).imageFiles[k].data

PngMagic  == <<137, 80, 78, 71>>
JpegMagic == <<255, 216, 255>>
GifMagic  == <<71, 73, 70, 56>>
RiffMagic == <<82, 73, 70, 70>>
WebpMagic == <<87, 69, 66, 80>>

IsWebp(b) == Len(b) >= 12 /\ startsWith(b, RiffMagic) /\ SubSeq(b, 9, 12) = WebpMagic

\* C25 as stated: detectMimeType returns PNG for a buffer that starts with
\* 89 50 4E 47, JPEG for one that starts with FF D8 FF, GIF for one that starts
\* with 47 49 46 38, WEBP for one of at least 12 bytes with 52 49 46 46 at
\* offset 0 and 57 45 42 50 at offset 8, and unknown for every other buffer.
C25_ClassifiedByLeadingBytes ==
  \A i \in Tasks : \A k \in Sniffs(i) :
    sniffed[i][k] =
      (IF startsWith(bufferOf(i, k), PngMagic) THEN ImagePng
       ELSE IF startsWith(bufferOf(i, k), JpegMagic) THEN ImageJpeg
       ELSE IF startsWith(bufferOf(i, k), GifMagic) THEN ImageGif
       ELSE IF IsWebp(bufferOf(i, k)) THEN ImageWebp
       ELSE NoMime)

\* C25 as amended: detectMimeType returns PNG for a buffer that starts with
\* 89 50 4E 47, JPEG for one of at least 4 bytes that starts with FF D8 FF, GIF
\* for one that starts with 47 49 46 38, WEBP for one of at least 12 bytes with
\* 52 49 46 46 at offset 0 and 57 45 42 50 at offset 8, and unknown for every
\* other buffer.
C25_ClassifiedByLeadingBytesOfFour ==
  \A i \in Tasks : \A k \in Sniffs(i) :
    sniffed[i][k] =
      (IF startsWith(bufferOf(i, k), PngMagic) THEN ImagePng
       ELSE IF Len(bufferOf(i, k)) >= 4 /\ startsWith(bufferOf(i, k), JpegMagic) THEN ImageJpeg
       ELSE IF startsWith(bufferOf(i, k), GifMagic) THEN ImageGif
       ELSE IF IsWebp(bufferOf(i, k)) THEN ImageWebp
       ELSE NoMime)

\* a buffer of twelve bytes or more with the first four bytes of a GIF and
\* WEBP at offset 8 was classified GIF
C25_Witness ==
  /\ 0 \in Tasks /\ Len(sniffed[0]) = 1
  /\ Len(bufferOf(0, 1)) >= 12
  /\ startsWith(bufferOf(0, 1), GifMagic)
  /\ SubSeq(bufferOf(0, 1), 9, 12) = WebpMagic
  /\ sniffed[0][1] = ImageGif

\* C26: detectMimeType returns for every buffer, with a format or unknown; it
\* returns unknown for every buffer of 0 to 3 bytes and for every buffer that
\* starts with 52 49 46 46 and has fewer than 12 bytes; the read of an image
\* never makes the unit throw.
C26_ShortBufferIsUnknown ==
  \A i \in Tasks :
    /\ upc[i] = "image" => (ENABLED ImageResolve(i))
    /\ Len(sniffed[i]) = nread[i]
    /\ (upc[i] \in {"image", "create"}) => thrown[i] = Null
    /\ \A k \in Sniffs(i) :
         /\ sniffed[i][k] \in {ImagePng, ImageJpeg, ImageGif, ImageWebp, NoMime}
         /\ Len(bufferOf(i, k)) <= 3 => sniffed[i][k] = NoMime
         /\ (startsWith(bufferOf(i, k), RiffMagic) /\ Len(bufferOf(i, k)) < 12) =>
              sniffed[i][k] = NoMime

\* the first eleven bytes of a WEBP file were sniffed and found unknown
C26_Witness ==
  /\ 0 \in Tasks /\ Len(sniffed[0]) = 1
  /\ bufferOf(0, 1) = SubSeq(WebpFile, 1, 11)
  /\ sniffed[0][1] = NoMime
  /\ upc[0] = "create"

\* the media type the claim derives from a file name's extension
ExtensionType(filename) ==
  CASE getExtension(filename) = <<".", "p", "n", "g">> -> ImagePng
    [] getExtension(filename) \in { <<".", "j", "p", "g">>, <<".", "j", "p", "e", "g">> } -> ImageJpeg
    [] getExtension(filename) = <<".", "g", "i", "f">> -> ImageGif
    [] getExtension(filename) = <<".", "w", "e", "b", "p">> -> ImageWebp

\* C27: the k-th block of a unit's request is the attachment of its k-th
\* image; its media type is the sniffed type whenever the sniffer returned a
\* format, whatever the extension of the file name, and the type of the
\* extension exactly when the sniffer returned unknown.
C27_SniffedTypeBeforeExtension ==
  \A i \in Tasks : \A k \in Sniffs(i) :
    /\ k <= Len(contentBlocks[i])
    /\ contentBlocks[i][k].type = "image"
    /\ contentBlocks[i][k].source.media_type =
         (IF sniffed[i][k] # NoMime
            THEN sniffed[i][k]
            ELSE ExtensionType(group(i).imageFiles[k].name))

\* a GIF named .png was attached as image/gif
C27_Witness ==
  /\ 0 \in Tasks /\ Len(sniffed[0]) = 1 /\ upc[0] = "create"
  /\ ExtensionType(group(0).imageFiles[1].name) = ImagePng
  /\ sniffed[0][1] = ImageGif
  /\ contentBlocks[0][1].source.media_type = ImageGif

(***************************************************************************)
(* Properties of the extraction of the markdown and of createPage.         *)
(***************************************************************************)
\* the text of the first text block of response r, "" when it has none
FirstText(r) ==
  IF \E k \in 1..Len(r) : r[k].type = "text"
    THEN r[CHOOSE k \in 1..Len(r) :
             r[k].type = "text" /\ \A m \in 1..(k - 1) : r[m].type # "text"].text
    ELSE << >>

\* C28: a unit the model answered, and whose storage phase met no failing
\* write, is a success, and the content it wrote to its page is the text of
\* the first text block of the response, wherever that block is, and the empty
\* string when the response has no text block or no block at all.
C28_FirstTextBlockPersisted ==
  \A i \in Tasks :
    (upc[i] = "settled" /\ Returned(i) /\ faultAt[i] = 0) =>
      /\ settled[i] = Success(group(i))
      /\ notes[group(i).slug].hasContent
      /\ writer[group(i).slug] = i =>
           notes[group(i).slug].content = FirstText(got[i])

\* C29: createPage is idempotent on every page of the store: applied to a page
\* that has content it leaves the content as it is, applied twice it gives
\* what it gives applied once, and applied to a page that does not exist it
\* gives a page whose content reads back as the empty string.  A storage phase
\* that stopped right after its createPage left a page with the content of its
\* last writer, or empty content when it had none.
C29_CreatePageIdempotent ==
  /\ \A p \in PagePaths :
       /\ createPage(createPage(notes[p])) = createPage(notes[p])
       /\ notes[p].hasContent =>
            /\ getPageContent(createPage(notes[p])) = getPageContent(notes[p])
            /\ createPage(notes[p]) = notes[p]
       /\ ~notes[p].dir =>
            /\ createPage(notes[p]).dir
            /\ getPageContent(createPage(notes[p])) = << >>
  /\ \A i \in Tasks :
       faultAt[i] = 3 =>
         /\ notes[group(i).slug].dir /\ notes[group(i).slug].hasContent
         /\ getPageContent(notes[group(i).slug]) =
              (IF writer[group(i).slug] = -1
                 THEN << >>
                 ELSE markdownFrom(got[writer[group(i).slug]]))

\* a second unit of a slug stopped after its createPage: the content the first
\* unit wrote is still there
C29_Witness ==
  /\ Len(groups) >= 3
  /\ group(0).slug = group(2).slug
  /\ faultAt[2] = 3
  /\ writer[group(0).slug] = 0
  /\ notes[group(0).slug].content = markdownOf(htmlText(0))
  /\ notes[group(0).slug].content # << >>

(***************************************************************************)
(* Properties of the diagnostic log.                                       *)
(***************************************************************************)
\* the errors a unit can fail with: of the reads, the model, the extraction
\* and the store
UnitErrors ==
  ModelErrors \cup {ReadError, TypeError, StorageError, MaxRetriesExceeded}

\* C30: whether or not the log file can be written, no error of the log
\* reaches a unit's outcome or the answer: a unit fails only with an error of
\* its reads, of the model, of the extraction or of the store, a unit that met
\* none of them succeeds with its page written, and the answer of an accepted
\* request is the report of the units' results.
C30_LogFailureIsSwallowed ==
  /\ \A i \in Tasks :
       /\ thrown[i] # LogError
       /\ thrown[i] # Null => thrown[i] \in UnitErrors
       /\ settled[i] # Null => settled[i] # taskCatch(group(i), LogError)
       /\ (upc[i] = "settled" /\ thrown[i] = Null) =>
            /\ settled[i] = Success(group(i))
            /\ notes[group(i).slug].hasContent
            /\ \A k \in 1..Len(imageBuffers(i)) :
                 \E a \in notes[group(i).slug].assets : a.name = imageBuffers(i)[k].name
  /\ post = "responded" =>
       /\ response # postCatch(LogError)
       /\ (Answered /\ Len(files) > 0 /\ apiKey) =>
            /\ response.status = 200
            /\ response.body = [results |-> results, unmatched |-> unmatched]
            /\ \A i \in Tasks : results[i] = settled[i]

\* with a log file that cannot be written, the report of a unit that succeeded
\* with its page written and of a unit that failed in the store was returned
C30_Witness ==
  /\ sink = "failing"
  /\ Reported
  /\ \E i, j \in Tasks :
       /\ response.body.results[i] = Success(group(i))
       /\ notes[group(i).slug].content = markdownOf(htmlText(i))
       /\ thrown[j] = StorageError
       /\ response.body.results[j] = taskCatch(group(j), StorageError)

(***************************************************************************)
(* C31: on the ingest route every request that does not carry the valid    *)
(* shared secret is refused and writes nothing to the page store, in every *)
(* configuration, the one without INGEST_API_KEY included.                 *)
(***************************************************************************)
CarriesSecret ==
  ingest.key # << >> /\ ingest.authorization = bearer(ingest.key)

C31_NoSecretNoEntry ==
  (ingest # Null /\ ~CarriesSecret) =>
    /\ \A p \in PagePaths : notes[p] = NoPage
    /\ ingest.pc \in {"received", "responded"}
    /\ ingest.pc = "responded" => ingest.response.status = 401

(***************************************************************************)
(* C32: parseCSV takes a quoted field literally: inside quotes a comma     *)
(* does not end the field and a doubled quote gives one quote, so the text *)
(* "a,b""c" with its outer quotes parses to one row with the single field  *)
(* a,b"c; the same field at the start of a longer text is the first field  *)
(* of the first row.                                                       *)
(***************************************************************************)
Parsed == csv # Null /\ csv.pc \in {"parsed", "rendered"}

SampleValue == <<"a", ",", "b", "\"", "c">>

StartsWithSample ==
  /\ Len(csv.text) >= Len(QuotedSample)
  /\ SubSeq(csv.text, 1, Len(QuotedSample)) = QuotedSample

C32_QuotedFieldIsLiteral ==
  (Parsed /\ StartsWithSample) =>
    /\ Len(csv.rows) >= 1
    /\ Len(csv.rows[1]) >= 1
    /\ csv.rows[1][1] = SampleValue
    /\ csv.text = QuotedSample => csv.rows = << <<SampleValue>> >>

C32_Witness ==
  Parsed /\ csv.text = QuotedSample /\ csv.rows = << <<SampleValue>> >>

(***************************************************************************)
(* C33: parseCSV emits the last field and row of every input that does not *)
(* end with a line terminator, an empty last field included: the rows are  *)
(* those of the same input with the terminator added, so no row is lost.   *)
(***************************************************************************)
Unterminated ==
  /\ csv.text # << >>
  /\ csv.text[Len(csv.text)] \notin {"\n", "\r"}

C33_LastRowEmitted ==
  (Parsed /\ Unterminated) => csv.rows = parseCSV(csv.text \o <<"\n">>)

(***************************************************************************)
(* C34: for a grid of at least one row csvToMarkdownTable gives the header *)
(* line, one separator line and then exactly one line per data row, in the *)
(* grid's order; a row shorter than the header is padded on the right with *)
(* empty cells and no cell moves.                                          *)
(***************************************************************************)
\* the lines of a text: s.split("\n")
RECURSIVE splitLines(_, _)
splitLines(s, line) ==
  IF s = << >> THEN <<line>>
  ELSE IF Head(s) = "\n" THEN <<line>> \o splitLines(Tail(s), << >>)
  ELSE splitLines(Tail(s), Append(line, Head(s)))

cellOf(row, j) == IF j <= Len(row) THEN row[j] ELSE << >>

widthOf(row, header) == IF Len(row) < Len(header) THEN Len(header) ELSE Len(row)

C34_OneLinePerRow ==
  (csv # Null /\ csv.pc = "rendered" /\ Len(csv.rows) >= 1) =>
    LET out    == splitLines(csv.table, << >>)
        header == csv.rows[1]
    IN  /\ Len(out) = Len(csv.rows) + 1
        /\ out[1] = tableLine([j \in 1..Len(header) |-> escape(header[j])])
        /\ out[2] = tableLine([j \in 1..Len(header) |-> <<"-", "-", "-">>])
        /\ \A k \in 2..Len(csv.rows) :
             out[k + 1] = tableLine([j \in 1..widthOf(csv.rows[k], header) |->
                                       escape(cellOf(csv.rows[k], j))])

(***************************************************************************)
(* C35: the storage phase of a unit (createPage, the content write and all *)
(* asset writes) has no suspension point and is one step: a step changes   *)
(* the page of one unit only, the unit that leaves its model call and      *)
(* settles in that very step, so the writes of two units never interleave; *)
(* and a page whose content was last written by a unit is never seen       *)
(* without that unit's assets unless the unit's own write threw.           *)
(***************************************************************************)
C35_StoragePhaseIsAtomic ==
  /\ [](\A p \in PagePaths : \A i \in Tasks :
          writer[p] = i =>
            /\ group(i).slug = p
            /\ upc[i] = "settled"
            /\ notes[p].hasContent
            /\ faultAt[i] = 0 =>
                 \A m \in 1..Len(imageBuffers(i)) : AssetOf(i, m) \in notes[p].assets
            /\ faultAt[i] # 0 => thrown[i] = StorageError)
  /\ [][\A p \in PagePaths :
          notes'[p] # notes[p] =>
            /\ \A q \in PagePaths \ {p} : notes'[q] = notes[q]
            /\ \E i \in Tasks :
                 /\ group(i).slug = p
                 /\ upc[i] = "create" /\ upc'[i] = "settled"
                 /\ \A j \in Tasks \ {i} : upc'[j] = upc[j] /\ faultAt'[j] = faultAt[j]
       ]_vars

\* two units of one slug have both stored: the page holds the content of the
\* later one and the assets of both
C35_Witness ==
  \E i, j \in Tasks :
    /\ i # j
    /\ group(i).slug = group(j).slug
    /\ upc[i] = "settled" /\ upc[j] = "settled"
    /\ faultAt[i] = 0 /\ faultAt[j] = 0
    /\ thrown[i] = Null /\ thrown[j] = Null
    /\ writer[group(i).slug] = i
    /\ Len(imageBuffers(i)) > 0
    /\ \A m \in 1..Len(imageBuffers(i)) : AssetOf(i, m) \in notes[group(i).slug].assets

(***************************************************************************)
(* C36: the report is made only after every unit has completed or failed:  *)
(* no response is sent while a unit is in progress, and a unit whose model *)
(* call never returns stays so and keeps the report from being returned,   *)
(* whatever the other units have finished and written.                     *)
(***************************************************************************)
C36_ReportWaitsForEveryUnit ==
  /\ [](post = "responded" => InFlight = {})
  /\ [](Reported => \A i \in Tasks : settled[i] # Null /\ response.body.results[i] # Null)
  /\ [](Hung # {} => post = "running" /\ response = Null /\ ~ENABLED PostRespond)
  /\ [][\A i \in Tasks : upc[i] = "hung" => upc'[i] = "hung"]_vars

\* one unit hangs in its model call; the others have settled, their results
\* are stored, a page is written, and no unit is left to start
C36_Witness ==
  /\ post = "running"
  /\ N >= 2
  /\ Cardinality(Hung) = 1
  /\ nextIndex = N
  /\ \A j \in Tasks \ Hung : upc[j] = "settled" /\ results[j] # Null
  /\ \E j \in Tasks \ Hung : results[j].success /\ notes[group(j).slug].hasContent

(***************************************************************************)
(* C37: runWithConcurrency claims the tasks in index order and is          *)
(* work-conserving: a task is started only when every task of a lower      *)
(* index has been started; while an unclaimed task remains every worker    *)
(* awaits a task of its own, none has left its loop; so until the cursor   *)
(* reaches N exactly min(C, N) tasks are claimed and not yet handed back.  *)
(***************************************************************************)
Claimed == { i \in Tasks : claims[i] > 0 /\ results[i] = Null }

C37_WorkConservingInIndexOrder ==
  post = "running" =>
    /\ \A i, j \in Tasks : (i < j /\ upc[j] # "idle") => upc[i] # "idle"
    /\ \A i \in Tasks : (upc[i] # "idle") = (i < nextIndex)
    /\ nextIndex < N =>
         /\ \A k \in DOMAIN workers : workers[k].state = "awaiting"
         /\ \A k1, k2 \in DOMAIN workers : k1 # k2 => workers[k1].i # workers[k2].i
         /\ Claimed = { workers[k].i : k \in DOMAIN workers }
         /\ Cardinality(Claimed) = Min(CONCURRENCY, N)

\* more tasks than workers: a task has completed, its worker has not yet taken
\* the task that is left
C37_Witness ==
  /\ post = "running"
  /\ N > CONCURRENCY
  /\ nextIndex < N
  /\ \E i \in Tasks : upc[i] = "settled" /\ results[i] = Null
  /\ Cardinality(Claimed) = CONCURRENCY

(***************************************************************************)
(* C38: the preview of the browser (computeGroups) and the grouping of the *)
(* server (groupFiles) agree on every file list: the same units in the     *)
(* same order with the same name, slug, document and assets, and the same  *)
(* unmatched assets; so the units the import route makes of a request are  *)
(* the units the page showed when the import was started.                  *)
(***************************************************************************)
NamesOfFiles(fs) == [k \in 1..Len(fs) |-> fs[k].name]

C38_PreviewAgreesWithServer ==
  preview # Null =>
    \A shown \in {computeGroups(preview.files)} : \A made \in {groupFiles(preview.files)} :
      /\ shown.groups = made.groups
      /\ NamesOfFiles(shown.unmatched) = made.unmatched
      /\ post = "grouped" =>
           /\ groups = shown.groups
           /\ unmatched = NamesOfFiles(shown.unmatched)

\* the server has grouped a list with two documents, an image matched by the
\* "_" form and an image that matches none
C38_Witness ==
  /\ preview # Null /\ preview.importing
  /\ post = "grouped"
  /\ Len(groups) = 2
  /\ \E k \in 1..Len(groups) : \E m \in 1..Len(groups[k].imageFiles) :
       startsWith(getBaseName(groups[k].imageFiles[m].name), groups[k].name \o <<"_">>)
  /\ Len(unmatched) = 1

(***************************************************************************)
(* C39: in the editor's autosave each edit cancels the pending save timer  *)
(* and sets a new one; once the user has stopped typing and every save     *)
(* request has completed, none of them with a failure, the content stored  *)
(* for the page is the content typed last, whatever the order in which the *)
(* timers fired and the requests in flight were handled.                   *)
(***************************************************************************)
Quiescent ==
  /\ editor # Null
  /\ editor.edits > 0
  /\ editor.saveTimer = NoTimer
  /\ editor.requests = {}

C39_LastTypedContentStored ==
  /\ (editor # Null /\ editor.saveTimer # NoTimer) => editor.saveTimer = editor.content
  /\ (Quiescent /\ budget = MaxFaults) =>
       getPageContent(notes[EditedPage]) = editor.content

(***************************************************************************)
(* C40: movePage fails and leaves the page tree as it was when the source  *)
(* page does not exist, when the new parent is the page itself or lies     *)
(* inside its subtree, or when a page of the same name exists at the       *)
(* destination; otherwise the page and its whole subtree are under the new *)
(* parent and gone from the old place, every other page stays, and the new *)
(* slug is returned.                                                       *)
(***************************************************************************)
MoveAnswered == tree # Null /\ tree.pc = "responded" /\ tree.slug # << >>

movedSlug   == splitSlug(tree.slug, << >>)
movedParent == splitSlug(tree.newParent, << >>)
movedTo     == Append(movedParent, movedSlug[Len(movedSlug)])

IsPrefixOf(sl, pg) == Len(sl) <= Len(pg) /\ \A n \in 1..Len(sl) : pg[n] = sl[n]

MoveRefused ==
  \/ movedSlug \notin tree.before
  \/ IsPrefixOf(movedSlug, movedParent)
  \/ movedTo \in tree.before

C40_MoveFailsOrMovesSubtree ==
  MoveAnswered =>
    IF MoveRefused
      THEN /\ tree.response.status = 400
           /\ tree.pages = tree.before
      ELSE /\ tree.response = [status |-> 200, newSlug |-> join(movedTo, <<"/">>)]
           /\ \A pg \in tree.before :
                IF IsPrefixOf(movedSlug, pg)
                  THEN /\ pg \notin tree.pages
                       /\ movedTo \o SubSeq(pg, Len(movedSlug) + 1, Len(pg)) \in tree.pages
                  ELSE pg \in tree.pages
           /\ Cardinality(tree.pages) >= Cardinality(tree.before)
           /\ \A pg \in tree.pages :
                \/ pg \in tree.before
                \/ IsPrefixOf(movedTo, pg)
                \/ IsPrefixOf(pg, movedParent)

\* a page with a page below it was moved under a page of another branch
C40_Witness ==
  /\ MoveAnswered
  /\ tree.response.status = 200
  /\ movedParent # << >>
  /\ \E pg \in tree.before : pg # movedSlug /\ IsPrefixOf(movedSlug, pg)
  /\ movedSlug \notin tree.pages
  /\ movedTo \in tree.pages

====
